---------------------------- MODULE Spec2Model ----------------------------
(***************************************************************************)
(* A model of the FiniteStateMachine class (src/src/FiniteStateMachine.ts) *)
(* and of the transition functions and machine documents of its test       *)
(* suite (src/test/finite-state-machine.specs.ts).                         *)
(*                                                                         *)
(* Every public method is one operator from a machine record (the fields   *)
(* of the object) to the machine after the call, its return value and the  *)
(* events it delivered; one action per method applies it to the variables. *)
(***************************************************************************)
EXTENDS Integers, Sequences, FiniteSets, TLC

VARIABLES
  name,              \* this.name
  curState,          \* this._curState
  states,            \* this._states: a Set, kept in insertion order
  transitions,       \* this._transitions: a Map from state name to rule
  observers,         \* this._subject: the observers subscribed to it
  subscriptions,     \* this._subscriptions
  acceptanceStates,  \* this._acceptanceStates
  initialState,      \* this._initialState
  initialData,       \* this._initialData
  alphabet,          \* this._alphabet
  lastCall           \* the latest call of a public method: arguments, result, deliveries

vars == <<name, curState, states, transitions, observers, subscriptions,
          acceptanceStates, initialState, initialData, alphabet, lastCall>>

-----------------------------------------------------------------------------
(* JavaScript values.  Every value is a record tagged by k, so that values  *)
(* of different types can be compared.                                      *)

UndefV == [k |-> "undefined"]
NullV == [k |-> "null"]
Bool(b) == [k |-> "bool", b |-> b]
Num(n) == [k |-> "num", n |-> n]
Str(s) == [k |-> "str", s |-> s]
Arr(items) == [k |-> "arr", items |-> items]

\* The name slots (state names, the override of next) hold TLA+ strings;
\* UNDEF is the undefined of such a slot (an argument left out).
UNDEF == "<undefined>"

NO_STATE == "[FSM] NO_STATE"
NO_DATA == "[FSM] NO_DATA"
VALID == "[FSM] DATA_VALID"
MISSING_PROPS == "[FSM] MISSING_PROPS"
INVALID_DATA == "[FSM] INVALID_DATA"

NaNV == [k |-> "nan"]

\* Which object an array or object value is.  The objects the caller made
\* (documents and their parts, inputs) carry no ref; an object the machine
\* allocates carries the place that allocated it: "fsm" for the copies
\* fromJson stores in the machine's fields, "read" for the copies a getter
\* returns.
New(v, site) == [f \in DOMAIN v \cup {"ref"} |-> IF f = "ref" THEN site ELSE v[f]]
Ref(v) == IF "ref" \in DOMAIN v THEN v.ref ELSE "caller"

\* A payment of the change machine (IPayment), amounts in whole cents.  extra
\* holds the properties other than p, n, d, q that pmt[state]++ created on the
\* object, by name.
Pmt(amt) == [k |-> "pmt", p |-> 0, n |-> 0, d |-> 0, q |-> 0,
             amt |-> amt, change |-> 0, extra |-> [x \in {} |-> NaNV]]

\* ToBoolean: what `v ? a : b` tests.
Truthy(v) ==
  CASE v.k = "undefined" -> FALSE
    [] v.k = "null" -> FALSE
    [] v.k = "bool" -> v.b
    [] v.k = "num" -> v.n # 0
    [] v.k = "str" -> v.s # ""
    [] v.k = "nan" -> FALSE
    [] OTHER -> TRUE

\* data == n for a number literal n: only the number n itself (a payment
\* object converts to NaN, the strings used here are not numeric).
LooseEqNum(v, n) == v.k = "num" /\ v.n = n

\* data == 's' for a string literal s.
LooseEqStr(v, s) == v.k = "str" /\ v.s = s

-----------------------------------------------------------------------------
(* Transition functions.  A call of one ends in a result object, in         *)
(* undefined (no return statement was reached) or in a thrown error.        *)

Out(to, data) == [k |-> "obj", to |-> to, data |-> data]
NoResult == [k |-> "undefined"]
Thrown == [k |-> "throw"]

f1(data) ==
  IF LooseEqNum(data, 1) THEN Out("S1", UndefV)
  ELSE IF LooseEqNum(data, 0) THEN Out("S2", UndefV) ELSE Out("S1", UndefV)

\* An f2 that stays in S2 on a zero.
f2_zeroStays(data) ==
  IF LooseEqNum(data, 1) THEN Out("S2", UndefV)
  ELSE IF LooseEqNum(data, 0) THEN Out("S2", UndefV) ELSE Out("S2", UndefV)

f2(data) ==
  IF LooseEqNum(data, 1) THEN Out("S2", UndefV)
  ELSE IF LooseEqNum(data, 0) THEN Out("S1", UndefV) ELSE Out("S2", UndefV)

f12(data) == IF LooseEqStr(data, "a") THEN Out("S2", UndefV) ELSE Out("S1", UndefV)

f22(data) ==
  IF LooseEqStr(data, "a") THEN Out("S2", UndefV)
  ELSE IF LooseEqStr(data, "b") THEN Out("S1", UndefV)
  ELSE IF LooseEqStr(data, "c") THEN Out("S4", UndefV) ELSE Out("S2", UndefV)

\* An f32 that stays in S3 on a b.
f32_bStays(data) ==
  IF LooseEqStr(data, "a") THEN Out("S1", UndefV)
  ELSE IF LooseEqStr(data, "b") THEN Out("S3", UndefV) ELSE Out("S3", UndefV)

f32(data) ==
  IF LooseEqStr(data, "a") THEN Out("S1", UndefV)
  ELSE IF LooseEqStr(data, "b") THEN Out("S4", UndefV) ELSE Out("S3", UndefV)

f42(data) == IF LooseEqStr(data, "d") THEN Out("S3", UndefV) ELSE Out("S4", UndefV)

\* The functions that new Function makes of the transition texts of the
\* document machine1, by the state of the descriptor.
fn_S1(data) == IF LooseEqStr(data, "a") THEN Out("S2", UndefV) ELSE Out("S1", UndefV)

fn_S2(data) ==
  IF LooseEqStr(data, "a") THEN Out("S2", UndefV)
  ELSE IF LooseEqStr(data, "b") THEN Out("S1", UndefV)
  ELSE IF LooseEqStr(data, "c") THEN Out("S4", UndefV) ELSE Out("S2", UndefV)

fn_S3(data) ==
  IF LooseEqStr(data, "a") THEN Out("S1", UndefV)
  ELSE IF LooseEqStr(data, "b") THEN Out("S4", UndefV) ELSE Out("S3", UndefV)

fn_S4(data) == IF LooseEqStr(data, "d") THEN Out("S3", UndefV) ELSE Out("S4", UndefV)

CoinNames == {"p", "n", "d", "q"}

\* A table in which a quarter is worth twenty cents.
COIN_VALUE_cheapQuarter(state) ==
  CASE state = "p" -> 1 [] state = "n" -> 5 [] state = "d" -> 10 [] state = "q" -> 20

\* COIN_VALUE, in cents.
COIN_VALUE(state) ==
  CASE state = "p" -> 1 [] state = "n" -> 5 [] state = "d" -> 10 [] state = "q" -> 25

\* v + 1 for the value v of a property: undefined and NaN give NaN, null gives 1.
PlusOne(v) ==
  CASE v.k = "num" -> Num(v.n + 1)
    [] v.k = "null" -> Num(1)
    [] OTHER -> NaNV

\* pmt[state]++
IncCoin(pmt, state) ==
  CASE state = "p" -> [pmt EXCEPT !.p = @ + 1]
    [] state = "n" -> [pmt EXCEPT !.n = @ + 1]
    [] state = "d" -> [pmt EXCEPT !.d = @ + 1]
    [] state = "q" -> [pmt EXCEPT !.q = @ + 1]
    [] OTHER ->
         LET old == IF state \in DOMAIN pmt.extra THEN pmt.extra[state] ELSE UndefV
         IN [pmt EXCEPT !.extra =
               [x \in DOMAIN @ \cup {state} |-> IF x = state THEN PlusOne(old) ELSE @[x]]]

\* The shared body of payola and of the change machine's transition text,
\* given the coin's value (NaN when isNaN): leftOver > 0.001 is leftOver >= 1
\* in whole cents and is false of NaN, as is leftOver <= 0.001.
PayBody(pmt, state, value, isNaN) ==
  LET leftOver == pmt.amt - value
      stay == ~isNaN /\ leftOver >= 1
      to == IF stay THEN state ELSE "c"
      p1 == [pmt EXCEPT !.amt = IF stay THEN leftOver ELSE 0,
                        !.change = IF ~isNaN /\ leftOver <= 0
                                   THEN (IF leftOver < 0 THEN -leftOver ELSE leftOver)
                                   ELSE 0]
  IN Out(to, IncCoin(p1, state))

\* payola is strict-mode code: on a primitive, pmt.amt reads undefined (so
\* leftOver is NaN) and the assignment pmt.amt = ... throws a TypeError; on
\* undefined or null the first read throws.
payola(pmt, state) ==
  IF pmt.k # "pmt" THEN Thrown
  ELSE IF state \in CoinNames THEN PayBody(pmt, state, COIN_VALUE(state), FALSE)
  ELSE PayBody(pmt, state, 0, TRUE)

\* The change machine's transition text, compiled by new Function: sloppy-mode
\* code in which every state other than p, n, d counts as a quarter.  On a
\* primitive the reads give undefined (leftOver is NaN), the assignments are
\* dropped and the primitive itself is returned as data; on undefined or null
\* the first read throws.
PayText(data, state) ==
  LET value == IF state = "p" THEN 1 ELSE IF state = "n" THEN 5
               ELSE IF state = "d" THEN 10 ELSE 25
  IN IF data.k = "pmt" THEN PayBody(data, state, value, FALSE)
     ELSE IF data.k \in {"undefined", "null"} THEN Thrown
     ELSE Out("c", data)

\* transFcn(input, this._curState)
RuleApply(rule, input, state) ==
  CASE rule = "f1" -> f1(input)
    [] rule = "f2" -> f2(input)
    [] rule = "f12" -> f12(input)
    [] rule = "f22" -> f22(input)
    [] rule = "f32" -> f32(input)
    [] rule = "f42" -> f42(input)
    [] rule = "fn_S1" -> fn_S1(input)
    [] rule = "fn_S2" -> fn_S2(input)
    [] rule = "fn_S3" -> fn_S3(input)
    [] rule = "fn_S4" -> fn_S4(input)
    [] rule = "payola" -> payola(input, state)
    [] rule = "payText" -> PayText(input, state)
    [] rule = "empty" -> NoResult


-----------------------------------------------------------------------------
(* The machine object.                                                      *)

M == [name |-> name, curState |-> curState, states |-> states,
      transitions |-> transitions, observers |-> observers,
      subscriptions |-> subscriptions, acceptanceStates |-> acceptanceStates,
      initialState |-> initialState, initialData |-> initialData,
      alphabet |-> alphabet]

\* A Map with no entry.
EmptyMap == [x \in {} |-> "f1"]

\* new FiniteStateMachine().  _acceptanceStates is declared and not assigned.
Constructor ==
  [name |-> "", curState |-> NO_STATE, states |-> <<>>,
   transitions |-> EmptyMap, observers |-> <<>>, subscriptions |-> <<>>,
   acceptanceStates |-> UndefV, initialState |-> NO_STATE,
   initialData |-> NullV, alphabet |-> NullV]

Range(seq) == {seq[i] : i \in DOMAIN seq}

\* What a call gives back: the machine after it, the value returned (Thrown
\* when the call ended in an exception) and the deliveries it made, in order.
Done(m, ret, delivered) == [m |-> m, ret |-> ret, delivered |-> delivered]

numStates(m) == Len(m.states)

numTransitions(m) == Cardinality(DOMAIN m.transitions)

currentState(m) == m.curState

\* An isAcceptance that asks about the initial state.
isAcceptance_ofInitialState(m) ==
  IF Truthy(m.acceptanceStates) THEN m.initialState \in m.acceptanceStates.keys ELSE FALSE

isAcceptance(m) ==
  IF Truthy(m.acceptanceStates) THEN m.curState \in m.acceptanceStates.keys ELSE FALSE

\* get states(): this._states.keys(), the names in the order the Set holds them
get_states(m) == m.states

\* get initialState()
get_initialState(m) == m.initialState

\* get initialData(): a JSON copy of a truthy _initialData, else null
get_initialData(m) ==
  IF Truthy(m.initialData)
  THEN New(IF m.initialData.k = "pmt"
           THEN [m.initialData EXCEPT !.extra =
                   [x \in DOMAIN @ |-> IF @[x].k = "nan" THEN NullV ELSE @[x]]]
           ELSE m.initialData,
           "read")
  ELSE NullV

\* get alphabet(): this._alphabet.slice(), a TypeError when _alphabet is null
get_alphabet(m) ==
  IF m.alphabet.k = "arr" THEN New(Arr(m.alphabet.items), "read") ELSE Thrown

\* A set that keeps a second entry for a name it already holds.
SetAdd_appends(seq, x) == Append(seq, x)

\* A set that moves a name added again to the end.
SetAdd_movesToEnd(seq, x) ==
  SelectSeq(seq, LAMBDA y : y # x) \o <<x>>

\* this._states.add(stateName)
SetAdd(seq, x) == IF x \in Range(seq) THEN seq ELSE Append(seq, x)

\* An addState that marks the name before it looks at it.
addState_marksAnyName(m, stateName, acceptance) ==
  LET acc == IF Truthy(m.acceptanceStates) THEN m.acceptanceStates
             ELSE [k |-> "obj", keys |-> {}]
      m0 == IF acceptance
            THEN [m EXCEPT !.acceptanceStates = [acc EXCEPT !.keys = @ \cup {stateName}]]
            ELSE m
  IN IF stateName # UNDEF /\ stateName # ""
     THEN Done([m0 EXCEPT !.states = SetAdd(m.states, stateName)], UndefV, <<>>)
     ELSE Done(m0, UndefV, <<>>)

\* An addState that writes the acceptance flag it is given, true or false.
addState_unmarks(m, stateName, acceptance) ==
  IF stateName # UNDEF /\ stateName # ""
  THEN LET m1 == [m EXCEPT !.states = SetAdd(m.states, stateName)]
           acc == IF Truthy(m.acceptanceStates) THEN m.acceptanceStates
                  ELSE [k |-> "obj", keys |-> {}]
       IN Done([m1 EXCEPT !.acceptanceStates =
                  [acc EXCEPT !.keys = IF acceptance THEN @ \cup {stateName}
                                       ELSE @ \ {stateName}]],
               UndefV, <<>>)
  ELSE Done(m, UndefV, <<>>)

\* An addState that makes the first state of a machine its current state.
addState_entersFirst(m, stateName, acceptance) ==
  IF stateName # UNDEF /\ stateName # ""
  THEN LET m1 == [m EXCEPT !.states = SetAdd(m.states, stateName),
                           !.curState = IF m.states = <<>> THEN stateName ELSE @]
           acc == IF Truthy(m.acceptanceStates) THEN m.acceptanceStates
                  ELSE [k |-> "obj", keys |-> {}]
       IN IF acceptance
          THEN Done([m1 EXCEPT !.acceptanceStates =
                                  [acc EXCEPT !.keys = @ \cup {stateName}]],
                    UndefV, <<>>)
          ELSE Done(m1, UndefV, <<>>)
  ELSE Done(m, UndefV, <<>>)

addState(m, stateName, acceptance) ==
  IF stateName # UNDEF /\ stateName # ""
  THEN LET m1 == [m EXCEPT !.states = SetAdd(m.states, stateName)]
           acc == IF Truthy(m.acceptanceStates) THEN m.acceptanceStates
                  ELSE [k |-> "obj", keys |-> {}]
       IN IF acceptance
          THEN Done([m1 EXCEPT !.acceptanceStates =
                                  [acc EXCEPT !.keys = @ \cup {stateName}]],
                    UndefV, <<>>)
          ELSE Done(m1, UndefV, <<>>)
  ELSE Done(m, UndefV, <<>>)

\* A registration that does not ask whether the from state exists.
addTransition_noStateCheck(m, from, to) ==
  IF from \in DOMAIN m.transitions THEN Done(m, Bool(FALSE), <<>>)
  ELSE Done([m EXCEPT !.transitions = @ @@ (from :> to)], Bool(TRUE), <<>>)

\* A registration that replaces the rule a state already has.
addTransition_overwrites(m, from, to) ==
  IF from \notin Range(m.states) THEN Done(m, Bool(FALSE), <<>>)
  ELSE Done([m EXCEPT !.transitions =
               [x \in DOMAIN @ \cup {from} |-> IF x = from THEN to ELSE @[x]]],
            Bool(from \notin DOMAIN m.transitions), <<>>)

addTransition(m, from, to) ==
  LET hasFrom == from \in Range(m.states)
  IN IF ~hasFrom THEN Done(m, Bool(FALSE), <<>>)
     ELSE IF from \in DOMAIN m.transitions THEN Done(m, Bool(FALSE), <<>>)
     ELSE Done([m EXCEPT !.transitions = @ @@ (from :> to)], Bool(TRUE), <<>>)

\* An observer argument is a listener's name, or NoObserver for undefined/null.
NoObserver == "<none>"

\* A subject that hands a new subscriber its current value at once.
addSubscriber_replays(m, observer) ==
  IF observer # NoObserver
  THEN Done([m EXCEPT !.observers = Append(@, observer),
                      !.subscriptions = Append(@, observer)],
            UndefV,
            <<[listener |-> observer,
               event |-> [from |-> m.curState, to |-> m.curState, data |-> NullV],
               seen |-> m.curState]>>)
  ELSE Done(m, UndefV, <<>>)


addSubscriber(m, observer) ==
  IF observer # NoObserver
  THEN Done([m EXCEPT !.observers = Append(@, observer),
                      !.subscriptions = Append(@, observer)],
            UndefV, <<>>)
  ELSE Done(m, UndefV, <<>>)

Event(from, to, data) == [from |-> from, to |-> to, data |-> data]

StateOutput(to, data) == [k |-> "out", to |-> to, data |-> data]

\* A subject that hands the event to its first observer only.
Publish_firstOnly(m, event) ==
  [i \in 1..(IF Len(m.observers) > 0 THEN 1 ELSE 0) |->
     [listener |-> m.observers[i], event |-> event, seen |-> currentState(m)]]

\* A subject that notifies the observer subscribed last first.
Publish_lastFirst(m, event) ==
  [i \in 1..Len(m.observers) |->
     [listener |-> m.observers[Len(m.observers) + 1 - i], event |-> event,
      seen |-> currentState(m)]]

\* this._subject.next(event): every observer of the subject is handed the
\* event, in subscription order.  A delivery records the listener, the event
\* and the currentState the listener reads from the machine while handling it.
Publish(m, event) ==
  [i \in 1..Len(m.observers) |->
     [listener |-> m.observers[i], event |-> event, seen |-> currentState(m)]]

\* An override that is taken only when it names a known state.
ApplyOverride_validated(m, override) ==
  IF override # UNDEF /\ override # "" /\ override \in Range(m.states)
  THEN [m EXCEPT !.curState = override] ELSE m

\* if (initialState !== undefined && initialState != '') this._curState = initialState
ApplyOverride(m, override) ==
  IF override # UNDEF /\ override # "" THEN [m EXCEPT !.curState = override] ELSE m

\* A lookup that fails instead of returning null.
NoRule_throws(m) == Done(m, Thrown, <<>>)

\* return null, when no rule is registered for the current state
NoRule(m) == Done(m, NullV, <<>>)

\* data: toState.data ? toState.data : null
EventData(payload) == IF Truthy(payload) THEN payload ELSE NullV

\* A result that defaults like the event does.
ReturnData_null(payload, input) == IF Truthy(payload) THEN payload ELSE NullV

\* data: toState.data ? toState.data : input
ReturnData(payload, input) == IF Truthy(payload) THEN payload ELSE input

\* A move that is left out when the machine has no states.
Advance_ifPopulated(m, to) == IF m.states # <<>> THEN [m EXCEPT !.curState = to] ELSE m

\* A step that forgets to move.
Advance_stays(m, to) == m

\* this._curState = toState.to
Advance(m, to) == [m EXCEPT !.curState = to]

\* The rule has returned toState: publish, then move, then return.
Step_mutatesFirst(m, toState, input) ==
  LET m2 == Advance(m, toState.to)
      event == Event(m.curState, toState.to, EventData(toState.data))
  IN Done(m2, StateOutput(m2.curState, ReturnData(toState.data, input)),
          Publish(m2, event))

Step(m, toState, input) ==
  LET event == Event(m.curState, toState.to, EventData(toState.data))
      delivered == Publish(m, event)
      m2 == Advance(m, toState.to)
  IN Done(m2, StateOutput(m2.curState, ReturnData(toState.data, input)), delivered)

\* A next that returns null when its rule returned no result.
next_nullOnNoResult(m, input, override) ==
  LET m1 == ApplyOverride(m, override)
  IN IF m1.curState \in DOMAIN m1.transitions
     THEN LET toState == RuleApply(m1.transitions[m1.curState], input, m1.curState)
          IN IF toState.k = "undefined" THEN Done(m1, NullV, <<>>)
             ELSE IF toState.k # "obj" THEN Done(m1, Thrown, <<>>)
             ELSE Step(m1, toState, input)
     ELSE NoRule(m1)

\* toState.to of a rule that returned undefined is a TypeError, and an error
\* thrown by the rule leaves next the same way: nothing is published and
\* _curState keeps the override.
next(m, input, override) ==
  LET m1 == ApplyOverride(m, override)
  IN IF m1.curState \in DOMAIN m1.transitions
     THEN LET toState == RuleApply(m1.transitions[m1.curState], input, m1.curState)
          IN IF toState.k # "obj" THEN Done(m1, Thrown, <<>>)
             ELSE Step(m1, toState, input)
     ELSE NoRule(m1)

\* What a test reads off the machine after a step.
Seen(m) == [state |-> currentState(m), accepting |-> isAcceptance(m)]

\* The loop of the tests: state = next(inputs[0], override), then
\* state = next(inputs[i]) for the rest.  The result is the machine after the
\* loop, the last value next returned (Thrown ends the loop), the deliveries
\* and what was to be seen after each step.
RECURSIVE RunFrom(_, _, _)
RunFrom(m, inputs, override) ==
  IF inputs = <<>>
  THEN [m |-> m, ret |-> UndefV, delivered |-> <<>>, seen |-> <<>>]
  ELSE LET r == next(m, Head(inputs), override)
       IN IF r.ret = Thrown
          THEN [m |-> r.m, ret |-> Thrown, delivered |-> r.delivered, seen |-> <<>>]
          ELSE IF Tail(inputs) = <<>>
          THEN [m |-> r.m, ret |-> r.ret, delivered |-> r.delivered,
                seen |-> <<Seen(r.m)>>]
          ELSE LET rest == RunFrom(r.m, Tail(inputs), UNDEF)
               IN [m |-> rest.m, ret |-> rest.ret,
                   delivered |-> r.delivered \o rest.delivered,
                   seen |-> <<Seen(r.m)>> \o rest.seen]

\* sub.unsubscribe(): the subscriber leaves the subject's observers.
RECURSIVE RemoveFirst(_, _)
RemoveFirst(seq, x) ==
  IF seq = <<>> THEN <<>>
  ELSE IF Head(seq) = x THEN Tail(seq)
  ELSE <<Head(seq)>> \o RemoveFirst(Tail(seq), x)

RECURSIVE UnsubscribeAll(_, _)
UnsubscribeAll(obs, subs) ==
  IF subs = <<>> THEN obs
  ELSE UnsubscribeAll(RemoveFirst(obs, Head(subs)), Tail(subs))

\* this._subject = new Subject<IStateTransition>()
NewSubject == <<>>

\* A clear that leaves what a document's initialState and initialData set.
ClearRest_keepsInitial(m) ==
  [m EXCEPT !.subscriptions = <<>>,
            !.observers = NewSubject,
            !.acceptanceStates = NullV,
            !.alphabet = NullV]

\* The fields clear resets, besides _states, _transitions and _curState.
ClearRest(m) ==
  [m EXCEPT !.subscriptions = <<>>,
            !.observers = NewSubject,
            !.acceptanceStates = NullV,
            !.initialState = NO_STATE,
            !.initialData = NullV,
            !.alphabet = NullV]

\* A clear that leaves the rules in place.
clear_keepsTransitions(m) ==
  Done([ClearRest(m) EXCEPT !.states = <<>>, !.curState = NO_STATE], UndefV, <<>>)

\* A clear that leaves the current state in place.
clear_keepsCurState(m) ==
  Done([ClearRest(m) EXCEPT !.states = <<>>, !.transitions = EmptyMap], UndefV, <<>>)

\* A clear that empties _subscriptions and keeps the subject and its observers.
clear_keepsObservers(m) ==
  Done([ClearRest(m) EXCEPT !.observers = m.observers,
                            !.states = <<>>,
                            !.transitions = EmptyMap,
                            !.curState = NO_STATE],
       UndefV, <<>>)

\* The subscriptions are unsubscribed from the old subject before it is
\* replaced, so what is left of its observers is dropped with it.
clear(m) ==
  Done([ClearRest([m EXCEPT !.observers = UnsubscribeAll(@, m.subscriptions)])
          EXCEPT !.states = <<>>,
                 !.transitions = EmptyMap,
                 !.curState = NO_STATE],
       UndefV, <<>>)

\* Listeners that call the machine while they handle an event.  Stepper's
\* handler calls next(0) unless it is itself running inside such a call;
\* Clearer's handler calls clear().
Stepper == "Stepper"
Clearer == "Clearer"
InnerInput == Num(0)

RECURSIVE nextNested(_, _, _, _)
RECURSIVE Deliver(_, _, _, _, _)

\* The handler of listener l, run at nesting depth depth (0: called from a
\* next of the caller, 1: from a next that a handler called).
Handle(m, l, depth) ==
  IF l = Stepper /\ depth = 0
  THEN LET r == nextNested(m, InnerInput, UNDEF, depth + 1)
       IN [m |-> r.m, delivered |-> r.delivered]
  ELSE IF l = Clearer THEN [m |-> clear(m).m, delivered |-> <<>>]
  ELSE [m |-> m, delivered |-> <<>>]

\* this._subject.next(event) with handlers that act on the machine: the
\* subject goes through the observers it had when next was called, from the
\* j-th on, and skips one that has been unsubscribed since; each handler runs
\* to its end, with all it causes, before the next observer is notified.
Deliver(m, event, snapshot, j, depth) ==
  IF j > Len(snapshot) THEN [m |-> m, delivered |-> <<>>]
  ELSE IF snapshot[j] \notin Range(m.observers)
  THEN Deliver(m, event, snapshot, j + 1, depth)
  ELSE LET d == [listener |-> snapshot[j], event |-> event,
                 seen |-> currentState(m), depth |-> depth]
           h == Handle(m, snapshot[j], depth)
           rest == Deliver(h.m, event, snapshot, j + 1, depth)
       IN [m |-> rest.m, delivered |-> <<d>> \o h.delivered \o rest.delivered]

\* A next that moves before it publishes.
nextNested_movesFirst(m, input, override, depth) ==
  LET m1 == ApplyOverride(m, override)
  IN IF m1.curState \in DOMAIN m1.transitions
     THEN LET toState == RuleApply(m1.transitions[m1.curState], input, m1.curState)
          IN IF toState.k # "obj" THEN Done(m1, Thrown, <<>>)
             ELSE LET event == Event(m1.curState, toState.to, EventData(toState.data))
                      m2 == Advance(m1, toState.to)
                      d == Deliver(m2, event, m2.observers, 1, depth)
                  IN Done(d.m, StateOutput(d.m.curState, ReturnData(toState.data, input)),
                          d.delivered)
     ELSE NoRule(m1)

\* next, with listeners that call the machine from their handlers: the
\* override, the lookup, the rule, the delivery with all that the handlers
\* do to the machine, then the assignment of the target and the return.
nextNested(m, input, override, depth) ==
  LET m1 == ApplyOverride(m, override)
  IN IF m1.curState \in DOMAIN m1.transitions
     THEN LET toState == RuleApply(m1.transitions[m1.curState], input, m1.curState)
          IN IF toState.k # "obj" THEN Done(m1, Thrown, <<>>)
             ELSE LET event == Event(m1.curState, toState.to, EventData(toState.data))
                      d == Deliver(m1, event, m1.observers, 1, depth)
                      m2 == Advance(d.m, toState.to)
                  IN Done(m2, StateOutput(m2.curState, ReturnData(toState.data, input)),
                          d.delivered)
     ELSE NoRule(m1)


-----------------------------------------------------------------------------
(* Machine documents.  A document is a record tagged "doc" whose has field  *)
(* names its own properties; a state descriptor likewise, tagged "desc".    *)

\* Transition texts of the test suite's documents (machine1 S1 and S2,
\* machine2's coin states and its complete state) and a text that is not a
\* function body.
TEXT_S1 == "return data == 'a' ? {to: 'S2'} : {to: 'S1'}"
TEXT_S2 == "return data == 'a' ? {to: 'S2'} : (data == 'b' ? {to: 'S1'} : (data == 'c' ? {to: 'S4'} : {to: 'S2'}))"
TEXT_S3 == "return data == 'a' ? {to: 'S1'} : (data == 'b' ? {to: 'S4'} : {to: 'S3'})"
TEXT_S4 == "return data == 'd' ? {to: 'S3'} : {to: 'S4'}"
TEXT_PAY == "const value = state == 'p' ? 0.01 : (state == 'n' ? 0.05 : (state == 'd' ? 0.1 : 0.25));const leftOver = data['amt'] - value;const to = leftOver > 0.001 ? state : 'c';data['amt'] = leftOver > 0.001 ? leftOver : 0;data['change'] = leftOver <= 0.001 ? Math.abs(leftOver) : 0;data[state]++; return {to: to, data: data};"
TEXT_EMPTY == ""
TEXT_MALFORMED == "return {to: "

\* new Function('data', 'state', text): the rule the text compiles to, or a
\* SyntaxError.  The body is not run.
SyntaxError == "<SyntaxError>"

Compile(text) ==
  CASE text = TEXT_S1 -> "fn_S1"
    [] text = TEXT_S2 -> "fn_S2"
    [] text = TEXT_S3 -> "fn_S3"
    [] text = TEXT_S4 -> "fn_S4"
    [] text = TEXT_PAY -> "payText"
    [] text = TEXT_EMPTY -> "empty"
    [] OTHER -> SyntaxError

\* JSON.parse(JSON.stringify(v)) of a payment: a copy in which a NaN became null.
JsonCopy(v) ==
  IF v.k = "pmt"
  THEN [v EXCEPT !.extra = [x \in DOMAIN @ |-> IF @[x].k = "nan" THEN NullV ELSE @[x]]]
  ELSE v

\* Object.prototype.toString.call(v) == '[object Array]'
IsArray(v) == v.k = "arr"

\* A test by typeof v == 'object', which arrays and null pass.
IsPlainObject_typeofObject(v) == v.k \in {"pmt", "doc", "desc", "arr", "null"}

\* Object.prototype.toString.call(v) == '[object Object]'
IsPlainObject(v) == v.k \in {"pmt", "doc", "desc"}

Action(success, action, node) ==
  [k |-> "action", success |-> success, action |-> action, node |-> node]

\* A loop that registers every state without its acceptance flag.
RECURSIVE ProcessStates_unmarked(_, _, _)
ProcessStates_unmarked(m, descs, i) ==
  IF i > Len(descs) THEN Done(m, UndefV, <<>>)
  ELSE LET state == descs[i]
       IN IF {"name", "isAcceptance", "transition"} \subseteq state.has
          THEN LET fcn == Compile(state.transition)
               IN IF fcn = SyntaxError THEN Done(m, Thrown, <<>>)
                  ELSE LET m1 == addState(m, state.name, FALSE).m
                           m2 == addTransition(m1, state.name, fcn).m
                       IN ProcessStates_unmarked(m2, descs, i + 1)
          ELSE Done(m, Action(FALSE, INVALID_DATA, state), <<>>)

\* A loop that goes on after a descriptor that lacks a property.
RECURSIVE ProcessStates_skipsBad(_, _, _)
ProcessStates_skipsBad(m, descs, i) ==
  IF i > Len(descs) THEN Done(m, UndefV, <<>>)
  ELSE LET state == descs[i]
       IN IF {"name", "isAcceptance", "transition"} \subseteq state.has
          THEN LET fcn == Compile(state.transition)
               IN IF fcn = SyntaxError THEN Done(m, Thrown, <<>>)
                  ELSE LET m1 == addState(m, state.name, state.isAcceptance).m
                           m2 == addTransition(m1, state.name, fcn).m
                       IN ProcessStates_skipsBad(m2, descs, i + 1)
          ELSE LET rest == ProcessStates_skipsBad(m, descs, i + 1)
               IN Done(rest.m, Action(FALSE, INVALID_DATA, state), <<>>)

\* A loop that starts from an empty store of states and rules.
RECURSIVE ProcessStates_freshStart(_, _, _)
ProcessStates_freshStart(m, descs, i) ==
  IF i > Len(descs) THEN Done(m, UndefV, <<>>)
  ELSE LET state == descs[i]
           m0 == IF i = 1
                 THEN [m EXCEPT !.states = <<>>, !.transitions = EmptyMap,
                                !.acceptanceStates = NullV]
                 ELSE m
       IN IF {"name", "isAcceptance", "transition"} \subseteq state.has
          THEN LET fcn == Compile(state.transition)
               IN IF fcn = SyntaxError THEN Done(m0, Thrown, <<>>)
                  ELSE LET m1 == addState(m0, state.name, state.isAcceptance).m
                           m2 == addTransition(m1, state.name, fcn).m
                       IN ProcessStates_freshStart(m2, descs, i + 1)
          ELSE Done(m0, Action(FALSE, INVALID_DATA, state), <<>>)

\* A loop that tries every compiled function once, without arguments.
RECURSIVE ProcessStates_runsBody(_, _, _)
ProcessStates_runsBody(m, descs, i) ==
  IF i > Len(descs) THEN Done(m, UndefV, <<>>)
  ELSE LET state == descs[i]
       IN IF {"name", "isAcceptance", "transition"} \subseteq state.has
          THEN LET fcn == Compile(state.transition)
               IN IF fcn = SyntaxError THEN Done(m, Thrown, <<>>)
                  ELSE IF RuleApply(fcn, UndefV, UNDEF) = Thrown THEN Done(m, Thrown, <<>>)
                  ELSE LET m1 == addState(m, state.name, state.isAcceptance).m
                           m2 == addTransition(m1, state.name, fcn).m
                       IN ProcessStates_runsBody(m2, descs, i + 1)
          ELSE Done(m, Action(FALSE, INVALID_DATA, state), <<>>)

\* The loop over the state descriptors, from the i-th on: the machine after
\* it and how it ended (UndefV: ran to the end).
RECURSIVE ProcessStates(_, _, _)
ProcessStates(m, descs, i) ==
  IF i > Len(descs) THEN Done(m, UndefV, <<>>)
  ELSE LET state == descs[i]
       IN IF {"name", "isAcceptance", "transition"} \subseteq state.has
          THEN LET fcn == Compile(state.transition)
               IN IF fcn = SyntaxError THEN Done(m, Thrown, <<>>)
                  ELSE LET m1 == addState(m, state.name, state.isAcceptance).m
                           m2 == addTransition(m1, state.name, fcn).m
                       IN ProcessStates(m2, descs, i + 1)
          ELSE Done(m, Action(FALSE, INVALID_DATA, state), <<>>)

\* A fromJson that counts the states before it looks at the alphabet.
fromJson_countsStatesFirst(m, data) ==
  IF data.k \in {"undefined", "null"}
  THEN Done(m, Action(FALSE, NO_DATA, UndefV), <<>>)
  ELSE IF ~({"name", "alphabet", "states"} \subseteq data.has)
  THEN Done(m, Action(FALSE, MISSING_PROPS, UndefV), <<>>)
  ELSE IF IsArray(data.states) /\ Len(data.states.items) = 0
  THEN Done(m, Action(FALSE, NO_STATE, UndefV), <<>>)
  ELSE IF ~IsArray(data.alphabet)
  THEN Done(m, Action(FALSE, INVALID_DATA, UndefV), <<>>)
  ELSE
    LET m1 == [m EXCEPT !.alphabet = New(Arr(data.alphabet.items), "fsm")]
    IN IF ~IsArray(data.states)
       THEN Done(m1, Action(FALSE, INVALID_DATA, UndefV), <<>>)
       ELSE
         LET init == IF "initialState" \in data.has THEN data.initialState ELSE NO_STATE
             m2 == [m1 EXCEPT !.name = data.name,
                              !.initialState = init,
                              !.curState = init]
             loop == ProcessStates(m2, data.states.items, 1)
             m3 == loop.m
         IN IF loop.ret # UndefV THEN loop
            ELSE IF "initialData" \in data.has
            THEN IF data.initialData.k # "undefined" /\ IsPlainObject(data.initialData)
                 THEN Done([m3 EXCEPT !.initialData = New(JsonCopy(data.initialData), "fsm")],
                           Action(TRUE, VALID, UndefV), <<>>)
                 ELSE Done(m3, Action(FALSE, INVALID_DATA, data.initialData), <<>>)
            ELSE Done(m3, Action(TRUE, VALID, UndefV), <<>>)

fromJson(m, data) ==
  IF data.k \in {"undefined", "null"}
  THEN Done(m, Action(FALSE, NO_DATA, UndefV), <<>>)
  ELSE IF ~({"name", "alphabet", "states"} \subseteq data.has)
  THEN Done(m, Action(FALSE, MISSING_PROPS, UndefV), <<>>)
  ELSE IF ~IsArray(data.alphabet)
  THEN Done(m, Action(FALSE, INVALID_DATA, UndefV), <<>>)
  ELSE
    LET m1 == [m EXCEPT !.alphabet = New(Arr(data.alphabet.items), "fsm")]
    IN IF ~IsArray(data.states)
       THEN Done(m1, Action(FALSE, INVALID_DATA, UndefV), <<>>)
       ELSE IF Len(data.states.items) = 0
       THEN Done(m1, Action(FALSE, NO_STATE, UndefV), <<>>)
       ELSE
         LET init == IF "initialState" \in data.has THEN data.initialState ELSE NO_STATE
             m2 == [m1 EXCEPT !.name = data.name,
                              !.initialState = init,
                              !.curState = init]
             loop == ProcessStates(m2, data.states.items, 1)
             m3 == loop.m
         IN IF loop.ret # UndefV THEN loop
            ELSE IF "initialData" \in data.has
            THEN IF data.initialData.k # "undefined" /\ IsPlainObject(data.initialData)
                 THEN Done([m3 EXCEPT !.initialData = New(JsonCopy(data.initialData), "fsm")],
                           Action(TRUE, VALID, UndefV), <<>>)
                 ELSE Done(m3, Action(FALSE, INVALID_DATA, data.initialData), <<>>)
            ELSE Done(m3, Action(TRUE, VALID, UndefV), <<>>)


\* What create returns when it returns a machine (the m of the result).
MachineV == [k |-> "machine"]

\* FiniteStateMachine.create(data, name): a new machine, loaded by fromJson,
\* is returned under the name given (or '') when the load succeeded, else
\* null; an error thrown by fromJson leaves create the same way.
create(data, n) ==
  IF data.k \notin {"undefined", "null"}
  THEN LET machine == Constructor
           result == fromJson(machine, data)
       IN IF result.ret = Thrown THEN Done(result.m, Thrown, <<>>)
          ELSE IF result.ret.success
          THEN Done([result.m EXCEPT !.name = IF n # UNDEF THEN n ELSE ""],
                    MachineV, <<>>)
          ELSE Done(result.m, NullV, <<>>)
  ELSE Done(Constructor, NullV, <<>>)

-----------------------------------------------------------------------------
(* Arguments of the calls.                                                  *)

\* Listeners and the most subscriptions a subject holds.
MaxSubs == 2
Listeners == {"L1", "L2"}

StateNameArgs == {"", "S1", "S2"}
FromArgs == {"S1", "S2"}
RuleArgs == {"f1", "payola"}
OverrideArgs == {UNDEF, "", "S1", "S2"}
StartAmt == 30
InputArgs == {Num(0), Pmt(StartAmt)}

Desc(n, acc, text) ==
  [k |-> "desc", has |-> {"name", "isAcceptance", "transition"},
   name |-> n, isAcceptance |-> acc, transition |-> text]

\* A descriptor without its transition.
DescNoTransition(n, acc) ==
  [k |-> "desc", has |-> {"name", "isAcceptance"},
   name |-> n, isAcceptance |-> acc, transition |-> TEXT_EMPTY]

\* A descriptor without the property prop.
DescWithout(prop, n, acc, text) ==
  [k |-> "desc", has |-> {"name", "isAcceptance", "transition"} \ {prop},
   name |-> n, isAcceptance |-> acc, transition |-> text]

Doc(has, n, alpha, sts, init, data) ==
  [k |-> "doc", has |-> has, name |-> n, alphabet |-> alpha, states |-> sts,
   initialState |-> init, initialData |-> data]

AllProps == {"name", "alphabet", "states", "initialState", "initialData"}

StringStates == <<Desc("S1", FALSE, TEXT_S1), Desc("S2", TRUE, TEXT_S2)>>
ChangeStates == <<Desc("S1", FALSE, TEXT_PAY), Desc("S2", TRUE, TEXT_EMPTY)>>
StringAlphabet == Arr(<<"a", "b">>)
ChangeAlphabet == Arr(<<"p", "n">>)

\* The documents handed to fromJson, by a short name.
DocOf(id) ==
  CASE id = "absent" -> NullV
    [] id = "noAlphabet" ->
         Doc({"name", "initialState", "states"}, "Machine1", UndefV,
             Arr(StringStates), "S1", UndefV)
    [] id = "alphabetNotArray" ->
         Doc({"name", "alphabet", "states"}, "Machine1", Str("ab"),
             Arr(StringStates), NO_STATE, UndefV)
    [] id = "statesNotArray" ->
         Doc({"name", "alphabet", "states"}, "Machine1", StringAlphabet,
             Str("S1"), NO_STATE, UndefV)
    [] id = "emptyStates" ->
         Doc({"name", "alphabet", "states", "initialState"}, "Machine1",
             StringAlphabet, Arr(<<>>), "S1", UndefV)
    [] id = "badDescriptor" ->
         Doc({"name", "alphabet", "states", "initialState"}, "ChangeMachine",
             ChangeAlphabet,
             Arr(<<Desc("S1", FALSE, TEXT_PAY), DescNoTransition("S2", TRUE)>>),
             "S2", UndefV)
    [] id = "malformedText" ->
         Doc({"name", "alphabet", "states"}, "Machine1", StringAlphabet,
             Arr(<<Desc("S1", TRUE, TEXT_MALFORMED)>>), NO_STATE, UndefV)
    [] id = "stringTest" ->
         Doc({"name", "alphabet", "states", "initialState"}, "StringTest",
             StringAlphabet, Arr(StringStates), "S1", UndefV)
    [] id = "changeMachine" ->
         Doc({"name", "alphabet", "states", "initialData"}, "ChangeMachine",
             ChangeAlphabet, Arr(ChangeStates), NO_STATE, Pmt(StartAmt))
    [] id = "undefinedDoc" -> UndefV
    [] id = "emptyObject" ->
         Doc({}, "", UndefV, UndefV, NO_STATE, UndefV)
    [] id = "noNameBadAlphabet" ->
         Doc({"alphabet", "states"}, "", Str("ab"), Str("S1"), NO_STATE, UndefV)
    [] id = "noStatesBadAlphabet" ->
         Doc({"name", "alphabet", "initialState"}, "Machine1", Str("ab"), UndefV,
             "S1", UndefV)
    [] id = "badAlphabetBadStates" ->
         Doc({"name", "alphabet", "states"}, "Machine1", Str("ab"), Str("S1"),
             NO_STATE, UndefV)
    [] id = "badAlphabetEmptyStates" ->
         Doc({"name", "alphabet", "states"}, "Machine1", Str("ab"), Arr(<<>>),
             NO_STATE, UndefV)
    [] id = "emptyStatesBadInitialData" ->
         Doc(AllProps, "Machine1", StringAlphabet, Arr(<<>>), "S1", Arr(<<>>))
    [] id = "machine1" ->
         Doc({"name", "initialState", "alphabet", "states"}, "StringTest",
             Arr(<<"a", "b", "c", "d">>),
             Arr(<<Desc("S1", FALSE, TEXT_S1), Desc("S2", FALSE, TEXT_S2),
                   Desc("S3", FALSE, TEXT_S3), Desc("S4", TRUE, TEXT_S4)>>),
             "S1", UndefV)
    [] id = "machine2" ->
         Doc({"name", "alphabet", "states", "initialData"}, "ChangeMachine",
             Arr(<<"p", "n", "d", "q">>),
             Arr(<<Desc("p", FALSE, TEXT_PAY), Desc("n", FALSE, TEXT_PAY),
                   Desc("d", FALSE, TEXT_PAY), Desc("q", FALSE, TEXT_PAY),
                   Desc("c", TRUE, TEXT_EMPTY)>>),
             NO_STATE, Pmt(68))
    [] id = "duplicateNames" ->
         Doc({"name", "alphabet", "states", "initialState"}, "Machine1",
             StringAlphabet,
             Arr(<<Desc("S1", FALSE, TEXT_S1), Desc("S1", TRUE, TEXT_S2),
                   Desc("S3", FALSE, TEXT_S1), Desc("S3", FALSE, TEXT_EMPTY)>>),
             "S1", UndefV)
    [] id = "emptyName" ->
         Doc({"name", "alphabet", "states", "initialState"}, "Machine1",
             StringAlphabet,
             Arr(<<Desc("", TRUE, TEXT_S1), Desc("S2", FALSE, TEXT_S2)>>),
             "S2", UndefV)
    [] id = "badFirstDescriptor" ->
         Doc({"name", "alphabet", "states", "initialState"}, "Machine1",
             StringAlphabet,
             Arr(<<Desc("S2", TRUE, TEXT_S2),
                   DescWithout("isAcceptance", "S1", FALSE, TEXT_S1),
                   Desc("S3", TRUE, TEXT_S1),
                   DescWithout("name", UNDEF, FALSE, TEXT_S2)>>),
             "S3", UndefV)
    [] id = "malformedThenBad" ->
         Doc({"name", "alphabet", "states"}, "Machine1", StringAlphabet,
             Arr(<<Desc("S1", TRUE, TEXT_MALFORMED), DescNoTransition("S2", TRUE)>>),
             NO_STATE, UndefV)
    [] id = "nullInitialData" ->
         Doc(AllProps, "Machine1", StringAlphabet, Arr(StringStates), "S1", NullV)
    [] id = "numberInitialData" ->
         Doc(AllProps, "ChangeMachine", ChangeAlphabet, Arr(ChangeStates),
             "S1", Num(5))
    [] id = "undefinedInitialData" ->
         Doc(AllProps, "Machine1", StringAlphabet, Arr(StringStates), "S2", UndefV)
    [] id = "badInitialData" ->
         Doc(AllProps, "ChangeMachine", ChangeAlphabet, Arr(ChangeStates),
             "S2", Arr(<<>>))

DocArgs == {"absent", "badDescriptor", "changeMachine"}

-----------------------------------------------------------------------------
(* The calls.                                                               *)

\* A call and its arguments; the slots a method does not take hold defaults.
\* before is currentState as the call found it.
Call(op, n, acc, rule, input, doc) ==
  [op |-> op, name |-> n, acceptance |-> acc, rule |-> rule, input |-> input,
   doc |-> doc, before |-> curState, ret |-> UndefV, delivered |-> <<>>]

NoCall ==
  [op |-> "new", name |-> UNDEF, acceptance |-> FALSE, rule |-> "", input |-> UndefV,
   doc |-> "", before |-> NO_STATE, ret |-> UndefV, delivered |-> <<>>]

\* The machine becomes r.m and the call is recorded with its result.
Apply(r, call) ==
  /\ name' = r.m.name
  /\ curState' = r.m.curState
  /\ states' = r.m.states
  /\ transitions' = r.m.transitions
  /\ observers' = r.m.observers
  /\ subscriptions' = r.m.subscriptions
  /\ acceptanceStates' = r.m.acceptanceStates
  /\ initialState' = r.m.initialState
  /\ initialData' = r.m.initialData
  /\ alphabet' = r.m.alphabet
  /\ lastCall' = [call EXCEPT !.ret = r.ret, !.delivered = r.delivered]

Init ==
  /\ name = Constructor.name
  /\ curState = Constructor.curState
  /\ states = Constructor.states
  /\ transitions = Constructor.transitions
  /\ observers = Constructor.observers
  /\ subscriptions = Constructor.subscriptions
  /\ acceptanceStates = Constructor.acceptanceStates
  /\ initialState = Constructor.initialState
  /\ initialData = Constructor.initialData
  /\ alphabet = Constructor.alphabet
  /\ lastCall = NoCall

AddState(n, acc) ==
  Apply(addState(M, n, acc), Call("addState", n, acc, "", UndefV, ""))

AddTransition(from, rule) ==
  Apply(addTransition(M, from, rule), Call("addTransition", from, FALSE, rule, UndefV, ""))

AddSubscriber(l) ==
  /\ Len(observers) < MaxSubs
  /\ Apply(addSubscriber(M, l), Call("addSubscriber", l, FALSE, "", UndefV, ""))

NextCall(input, override) ==
  Apply(next(M, input, override), Call("next", override, FALSE, "", input, ""))

Clear ==
  Apply(clear(M), Call("clear", UNDEF, FALSE, "", UndefV, ""))

FromJson(id) ==
  Apply(fromJson(M, DocOf(id)), Call("fromJson", UNDEF, FALSE, "", UndefV, id))

\* const machine = FiniteStateMachine.create(doc, name): the variables are
\* the machine the caller holds, which a create that returns one replaces.
Create(id, n) ==
  LET r == create(DocOf(id), n)
  IN Apply(IF r.ret = MachineV THEN r ELSE Done(M, r.ret, <<>>),
           Call("create", n, FALSE, "", UndefV, id))

\* A run of the loop: the call record holds the inputs as an array and, as
\* its result, the last value returned and what was seen after each step.
Drive(inputs, override) ==
  LET r == RunFrom(M, inputs, override)
  IN Apply(Done(r.m, [k |-> "run", last |-> r.ret, seen |-> r.seen], r.delivered),
           Call("drive", override, FALSE, "", Arr(inputs), ""))

Next ==
  \/ \E n \in StateNameArgs, acc \in BOOLEAN : AddState(n, acc)
  \/ \E from \in FromArgs, rule \in RuleArgs : AddTransition(from, rule)
  \/ \E l \in Listeners \cup {NoObserver} : AddSubscriber(l)
  \/ \E input \in InputArgs, override \in OverrideArgs : NextCall(input, override)
  \/ Clear
  \/ \E id \in DocArgs : FromJson(id)

Spec == Init /\ [][Next]_vars


-----------------------------------------------------------------------------
(* Properties of next.  They are stated on the record of the latest call:  *)
(* next leaves the rules alone, so the rule it looked up is the one         *)
(* registered, after the call, for the state the lookup used.               *)

OverrideGiven == lastCall.name # UNDEF /\ lastCall.name # ""

\* The state the latest next call looked up: the override when one was given,
\* else currentState as the call found it.
LookupState == IF OverrideGiven THEN lastCall.name ELSE lastCall.before

FoundRule == lastCall.op = "next" /\ LookupState \in DOMAIN transitions

\* What the registered rule returns for the call's input and lookup state.
RuleResult == RuleApply(transitions[LookupState], lastCall.input, LookupState)

\* The latest call is a next whose rule returned a result object.
Stepped == FoundRule /\ RuleResult.k = "obj"

\* C1: when a rule is registered for the current state (taken after any
\* override is applied) and returns its result for (input, current state),
\* next sets currentState to the target the rule returned and returns a result
\* whose `to` equals both that target and the new currentState.
C1_NextFollowsRule ==
  Stepped =>
    /\ lastCall.ret.k = "out"
    /\ lastCall.ret.to = RuleResult.to
    /\ curState = RuleResult.to
    /\ lastCall.ret.to = currentState(M)

\* A step under an override that moved to another state, by a rule whose
\* target depends on the state it is called with.
C1_Witness ==
  /\ Stepped
  /\ OverrideGiven
  /\ lastCall.before # lastCall.name
  /\ transitions[LookupState] = "payText"
  /\ curState = "c"
  /\ lastCall.ret.to = "c"

\* C2: whenever no rule is registered for the current state (the NO_STATE
\* sentinel, a fresh or just-cleared machine included), next returns null,
\* publishes no event to any listener and raises no error.
C2_NoRuleReturnsNull ==
  (lastCall.op = "next" /\ ~FoundRule) =>
    /\ lastCall.ret = NullV
    /\ lastCall.delivered = <<>>
    /\ curState = LookupState

\* next on a machine without states, in the sentinel state, with a listener.
C2_Witness ==
  /\ lastCall.op = "next"
  /\ ~FoundRule
  /\ LookupState = NO_STATE
  /\ states = <<>>
  /\ observers # <<>>
  /\ lastCall.ret = NullV

\* The listeners the latest call delivered to, in delivery order.
DeliveredTo == [i \in DOMAIN lastCall.delivered |-> lastCall.delivered[i].listener]

\* C3: every listener added with addSubscriber since the last clear (whatever
\* addState, addTransition or fromJson calls came in between) receives exactly
\* one event for each next call whose rule returns a result, steps whose target
\* is the state being left included; the event carries from = the state being
\* left and to = the rule's target, and it is delivered inside that next call.
C3_OneEventPerStep ==
  Stepped =>
    /\ DeliveredTo = subscriptions
    /\ \A i \in DOMAIN lastCall.delivered :
         /\ lastCall.delivered[i].event.from = LookupState
         /\ lastCall.delivered[i].event.to = RuleResult.to

\* Two listeners were handed the event of a step that stays in its state,
\* after a document was loaded.
C3_Witness ==
  /\ Stepped
  /\ Len(lastCall.delivered) = 2
  /\ lastCall.delivered[1].listener # lastCall.delivered[2].listener
  /\ lastCall.delivered[1].event.from = lastCall.delivered[1].event.to
  /\ alphabet # NullV

\* C4: the event is published before currentState is changed: while a
\* listener handles the event the machine's currentState is still the event's
\* `from`, and once all listeners have been notified it is the event's `to`.
C4_PublishBeforeMove ==
  lastCall.op = "next" =>
    \A i \in DOMAIN lastCall.delivered :
      /\ lastCall.delivered[i].seen = lastCall.delivered[i].event.from
      /\ curState = lastCall.delivered[i].event.to

\* A listener was handed the event of a step that changes the state.
C4_Witness ==
  /\ lastCall.op = "next"
  /\ lastCall.delivered # <<>>
  /\ lastCall.delivered[1].event.from # lastCall.delivered[1].event.to
  /\ lastCall.delivered[1].seen # curState

\* C5: if the rule's payload is truthy, the event's data and the result's data
\* both equal the payload; if it is missing or falsy, the event's data is null
\* and the result's data is the input passed to next.
C5_DataDefaults ==
  Stepped =>
    /\ Truthy(RuleResult.data) =>
         /\ lastCall.ret.data = RuleResult.data
         /\ \A i \in DOMAIN lastCall.delivered :
              lastCall.delivered[i].event.data = RuleResult.data
    /\ ~Truthy(RuleResult.data) =>
         /\ lastCall.ret.data = lastCall.input
         /\ \A i \in DOMAIN lastCall.delivered :
              lastCall.delivered[i].event.data = NullV

\* A listener was handed null while the caller got its input back, the rule
\* having returned no payload for a truthy input.
C5_Witness ==
  /\ Stepped
  /\ RuleResult.data = UndefV
  /\ lastCall.delivered # <<>>
  /\ lastCall.delivered[1].event.data = NullV
  /\ lastCall.ret.data = lastCall.input
  /\ Truthy(lastCall.input)

\* C6: a non-empty override becomes currentState before the lookup, with no
\* check that it is a known state: the rule used and the event's `from` are
\* the override's, and when the override has no rule next returns null and
\* currentState stays the override.  An undefined or empty override leaves the
\* lookup to the currentState the call found.
C6_OverrideUnchecked ==
  lastCall.op = "next" =>
    /\ OverrideGiven =>
         /\ lastCall.name \notin DOMAIN transitions =>
              lastCall.ret = NullV /\ curState = lastCall.name
         /\ lastCall.name \in DOMAIN transitions =>
              LET r == RuleApply(transitions[lastCall.name], lastCall.input, lastCall.name)
              IN /\ r.k = "obj" => lastCall.ret.k = "out" /\ lastCall.ret.to = r.to
                 /\ r.k # "obj" => curState = lastCall.name
         /\ \A i \in DOMAIN lastCall.delivered :
              lastCall.delivered[i].event.from = lastCall.name
    /\ ~OverrideGiven =>
         /\ lastCall.before \notin DOMAIN transitions =>
              lastCall.ret = NullV /\ curState = lastCall.before
         /\ lastCall.before \in DOMAIN transitions =>
              LET r == RuleApply(transitions[lastCall.before], lastCall.input, lastCall.before)
              IN /\ r.k = "obj" => lastCall.ret.k = "out" /\ lastCall.ret.to = r.to
                 /\ r.k # "obj" => curState = lastCall.before
         /\ \A i \in DOMAIN lastCall.delivered :
              lastCall.delivered[i].event.from = lastCall.before

\* An override that is not a known state and has no rule replaced a known
\* current state.
C6_Witness ==
  /\ lastCall.op = "next"
  /\ OverrideGiven
  /\ lastCall.name \notin Range(states)
  /\ lastCall.before \in Range(states)
  /\ lastCall.ret = NullV
  /\ curState = lastCall.name


-----------------------------------------------------------------------------
(* Properties of addTransition and of the state set.                        *)

\* C7: addTransition(from, rule) returns false whenever `from` is not in the
\* state set at the time of the call, and then the rules, the state set and
\* numTransitions are unchanged; nothing is thrown.
C7_UnknownFromRejected ==
  /\ [](lastCall.op = "addTransition" /\ lastCall.name \notin Range(states)
          => lastCall.ret = Bool(FALSE))
  /\ [][(lastCall'.op = "addTransition" /\ lastCall'.name \notin Range(states)) =>
          /\ lastCall'.ret = Bool(FALSE)
          /\ transitions' = transitions
          /\ states' = states
          /\ Cardinality(DOMAIN transitions') = Cardinality(DOMAIN transitions)]_vars

\* A rule for a name outside the state set was refused by a machine that has
\* states and rules.
C7_Witness ==
  /\ lastCall.op = "addTransition"
  /\ lastCall.name \notin Range(states)
  /\ lastCall.ret = Bool(FALSE)
  /\ states # <<>>
  /\ DOMAIN transitions # {}

\* C8: addTransition(from, rule) returns false when `from` already has a rule,
\* and the rule registered first stays in force: numTransitions is unchanged
\* and the rules, which a later next looks up, are the same as before.
C8_FirstRuleWins ==
  [][(lastCall'.op = "addTransition" /\ lastCall'.name \in DOMAIN transitions) =>
       /\ lastCall'.ret = Bool(FALSE)
       /\ transitions' = transitions
       /\ transitions'[lastCall'.name] = transitions[lastCall'.name]
       /\ Cardinality(DOMAIN transitions') = Cardinality(DOMAIN transitions)]_vars

\* Another rule was refused for a state that has one.
C8_Witness ==
  /\ lastCall.op = "addTransition"
  /\ lastCall.name \in DOMAIN transitions
  /\ transitions[lastCall.name] # lastCall.rule
  /\ lastCall.ret = Bool(FALSE)

\* C9: every state name that has a rule is a member of the state set, so
\* numTransitions never exceeds numStates; and addTransition returns true
\* exactly when `from` is a known state with no rule yet, adding exactly one to
\* numTransitions.
C9_RulesOnlyForStates ==
  /\ [](/\ DOMAIN transitions \subseteq Range(states)
        /\ numTransitions(M) <= numStates(M))
  /\ [][lastCall'.op = "addTransition" =>
          /\ lastCall'.ret = Bool(lastCall'.name \in Range(states)
                                  /\ lastCall'.name \notin DOMAIN transitions)
          /\ lastCall'.ret = Bool(TRUE) =>
               Cardinality(DOMAIN transitions') = Cardinality(DOMAIN transitions) + 1
          /\ lastCall'.ret = Bool(FALSE) =>
               transitions' = transitions /\ states' = states]_vars

\* Both states have their rule, the second one registered just now.
C9_Witness ==
  /\ lastCall.op = "addTransition"
  /\ lastCall.ret = Bool(TRUE)
  /\ numStates(M) = 2
  /\ numTransitions(M) = 2

\* currentState is the sentinel or a known state.
KnownState == curState = NO_STATE \/ curState \in Range(states)

\* C10 as claimed: in every reachable state currentState is either the
\* NO_STATE sentinel or a name present in the state set.
C10_AsClaimed == KnownState

\* The latest call, a next, was given an override that is not a known state,
\* or its rule returned a target that is not one.
NextInstallsUnknown ==
  /\ lastCall'.op = "next"
  /\ \/ lastCall'.name \notin {UNDEF, ""} /\ lastCall'.name \notin Range(states)
     \/ lastCall'.ret.k = "out" /\ lastCall'.ret.to \notin Range(states)

\* The latest call, a fromJson, was given a document whose initialState is
\* not among the states registered when the call returns.
FromJsonInstallsUnknown ==
  /\ lastCall'.op = "fromJson"
  /\ DocOf(lastCall'.doc).k = "doc"
  /\ "initialState" \in DocOf(lastCall'.doc).has
  /\ DocOf(lastCall'.doc).initialState \notin Range(states')

\* C10, amended: a currentState that is the sentinel or a known state stays
\* so over every call, except a next whose override or whose rule's target is
\* not a known state and a fromJson whose document names an initialState that
\* is not among the registered states.
C10_KnownUnlessInstalled ==
  [][(KnownState /\ ~NextInstallsUnknown /\ ~FromJsonInstallsUnknown) => KnownState']_vars

\* A step between two known states.
C10_Witness ==
  /\ Stepped
  /\ lastCall.before \in Range(states)
  /\ curState \in Range(states)
  /\ curState # lastCall.before

-----------------------------------------------------------------------------
(* Properties of the state set and of the acceptance marks.                 *)

\* The names that carry an acceptance mark: the own properties of
\* _acceptanceStates, none while it is undefined or null.
Marks == IF acceptanceStates.k = "obj" THEN acceptanceStates.keys ELSE {}

\* C11: in every reachable state of the machine, every name carrying an
\* acceptance mark is a member of the state set.
C11_MarksAreStates == Marks \subseteq Range(states)

\* Two states, one of them marked.
C11_Witness ==
  /\ Len(states) = 2
  /\ Cardinality(Marks) = 1

\* C12: isAcceptance is true if and only if the current state name carries an
\* acceptance mark; it is false on a fresh machine, after clear, and whenever
\* currentState is the sentinel or a name without a mark.
C12_AcceptanceIffMarked ==
  /\ isAcceptance(M) = (currentState(M) \in Marks)
  /\ lastCall.op \in {"new", "clear"} => ~isAcceptance(M)
  /\ currentState(M) = NO_STATE => ~isAcceptance(M)
  /\ currentState(M) \notin Marks => ~isAcceptance(M)

\* A step took the machine from a state without a mark to a marked one, which
\* is not the initial state.
C12_Witness ==
  /\ Stepped
  /\ lastCall.before \notin Marks
  /\ isAcceptance(M)
  /\ initialState # curState

\* The latest addState call passed a name the state set did not hold.
AddsNewName ==
  /\ lastCall'.name # UNDEF
  /\ lastCall'.name # ""
  /\ lastCall'.name \notin Range(states)

\* C13: numStates is the number of distinct non-empty names added: adding a
\* name that is already present (or an empty name) leaves numStates unchanged,
\* and adding a new name increases it by exactly one.
C13_CountsDistinctNames ==
  /\ [](/\ numStates(M) = Cardinality(Range(get_states(M)))
        /\ "" \notin Range(get_states(M)))
  /\ [][lastCall'.op = "addState" =>
          Len(states') = Len(states) + (IF AddsNewName THEN 1 ELSE 0)]_vars

\* A name was added again to a machine that holds two.
C13_Witness ==
  /\ lastCall.op = "addState"
  /\ numStates(M) = 2
  /\ lastCall.name = states[1]

\* C14: addState never removes an acceptance mark: adding a marked name again
\* with acceptance false leaves the mark, and the set of marked names only
\* grows until clear is called.
C14_MarksOnlyGrow ==
  [][lastCall'.op # "clear" => Marks \subseteq Marks']_vars

\* A marked name was added again with acceptance false and kept its mark.
C14_Witness ==
  /\ lastCall.op = "addState"
  /\ ~lastCall.acceptance
  /\ lastCall.name \in Marks

IsPrefix(s, t) == Len(s) <= Len(t) /\ SubSeq(t, 1, Len(s)) = s

\* C15: iterating `states` yields the names in the order of their first
\* insertion: a new name goes to the end, a name added again keeps its place
\* and gets no second entry, and no other call but clear reorders the names.
C15_InsertionOrder ==
  /\ [](\A i, j \in DOMAIN get_states(M) :
          i # j => get_states(M)[i] # get_states(M)[j])
  /\ [][lastCall'.op = "addState" =>
          states' = IF AddsNewName THEN Append(states, lastCall'.name) ELSE states]_vars
  /\ [][lastCall'.op # "clear" => IsPrefix(states, states')]_vars

\* The name inserted first was added again, with another mark, and is still
\* iterated first.
C15_Witness ==
  /\ lastCall.op = "addState"
  /\ Len(get_states(M)) = 2
  /\ get_states(M)[1] = lastCall.name
  /\ lastCall.acceptance
  /\ Marks = Range(states)

\* C16: after clear returns, numStates = 0, numTransitions = 0, isAcceptance
\* is false, currentState and initialState are the NO_STATE sentinel,
\* initialData is absent, no acceptance mark remains, and name has the value
\* it had before the call.
C16_ClearResets ==
  /\ [](lastCall.op = "clear" =>
          /\ numStates(M) = 0
          /\ numTransitions(M) = 0
          /\ ~isAcceptance(M)
          /\ currentState(M) = NO_STATE
          /\ get_initialState(M) = NO_STATE
          /\ get_initialData(M) = NullV
          /\ Marks = {})
  /\ [][lastCall'.op = "clear" => name' = name]_vars

\* A machine that a document had named was cleared in a state other than the
\* sentinel.
C16_Witness ==
  /\ lastCall.op = "clear"
  /\ lastCall.before # NO_STATE
  /\ name = "ChangeMachine"

-----------------------------------------------------------------------------
(* Listeners across clear.  A machine that is built by addState and         *)
(* addTransition without acceptance states, stepped, cleared and built      *)
(* again: _acceptanceStates is undefined until the first clear and null     *)
(* from then on.  Listener L1 is attached before the first clear only, and  *)
(* that clear is called with L1 attached; listener L2 is attached after it. *)

EarlyListener == "L1"
LateListener == "L2"

Cleared == acceptanceStates = NullV

BuildState == \E n \in FromArgs : AddState(n, FALSE)

BuildTransition == \E from \in FromArgs, rule \in RuleArgs : AddTransition(from, rule)

SubscribeEarly == ~Cleared /\ AddSubscriber(EarlyListener)

SubscribeLate == Cleared /\ AddSubscriber(LateListener)

StepAny == \E input \in InputArgs, override \in OverrideArgs : NextCall(input, override)

ClearSubscribed == (Cleared \/ EarlyListener \in Range(subscriptions)) /\ Clear

NextTeardown ==
  \/ BuildState
  \/ BuildTransition
  \/ SubscribeEarly
  \/ SubscribeLate
  \/ StepAny
  \/ ClearSubscribed

SpecTeardown == Init /\ [][NextTeardown]_vars

\* C17: a listener attached before a clear receives no event from any next
\* call made after that clear, even when the same states and rules are added
\* again and stepped; the listeners attached after the clear each receive the
\* event of a later step.
C17_StaleListenersInert ==
  (lastCall.op = "next" /\ Cleared) =>
    /\ \A i \in DOMAIN lastCall.delivered :
         lastCall.delivered[i].listener # EarlyListener
    /\ Stepped =>
         /\ subscriptions # <<>> => lastCall.delivered # <<>>
         /\ \A i \in DOMAIN subscriptions :
              \E j \in DOMAIN lastCall.delivered :
                lastCall.delivered[j].listener = subscriptions[i]

\* After the clear that tore down L1, the states and a rule were added again
\* and a step was delivered to L2.
C17_Witness ==
  /\ Cleared
  /\ Stepped
  /\ Len(states) = 2
  /\ DeliveredTo = <<LateListener>>

-----------------------------------------------------------------------------
(* The alphabet getter.                                                     *)

\* C18: reading `alphabet` on a machine that was not populated from a data
\* document (freshly constructed, built only with addState/addTransition, or
\* cleared) returns an absent or empty value and does not raise an error.
C18_AbsentAlphabetReadable ==
  alphabet = NullV =>
    LET a == get_alphabet(M)
    IN /\ a # Thrown
       /\ a.k \in {"null", "undefined"} \/ (a.k = "arr" /\ a.items = <<>>)

-----------------------------------------------------------------------------
(* Loading documents.  A machine that is loaded, again and again, from      *)
(* every document of DocOf, and cleared.                                    *)

LoadArgs ==
  {"absent", "undefinedDoc", "emptyObject", "noAlphabet", "noNameBadAlphabet",
   "noStatesBadAlphabet", "alphabetNotArray", "badAlphabetBadStates",
   "badAlphabetEmptyStates", "statesNotArray", "emptyStates",
   "emptyStatesBadInitialData", "badDescriptor", "malformedText", "stringTest",
   "changeMachine", "badInitialData", "emptyName", "badFirstDescriptor",
   "malformedThenBad", "nullInitialData", "numberInitialData",
   "undefinedInitialData"}

Load == \E id \in LoadArgs : FromJson(id)

MachineNameArgs == {UNDEF, "", "mine"}

Factory == \E id \in LoadArgs, n \in MachineNameArgs : Create(id, n)

NextLoad == Load \/ Clear \/ Factory

SpecLoad == Init /\ [][NextLoad]_vars

\* The document of the latest call.
LastDoc == DocOf(lastCall.doc)

IsAbsent(doc) == doc.k \in {"undefined", "null"}

LacksRequired(doc) == \E prop \in {"name", "alphabet", "states"} : prop \notin doc.has

\* C19: fromJson classifies a malformed document by the first failing check
\* in this order: absent document -> NO_DATA; name, alphabet or states missing
\* -> MISSING_PROPS; alphabet not an array -> INVALID_DATA; states not an
\* array -> INVALID_DATA; states an empty array -> NO_STATE.  Each of these
\* results has success = false, and a document with several defects reports
\* the earliest one.
C19_FirstDefectReported ==
  lastCall.op = "fromJson" =>
    /\ IsAbsent(LastDoc) => lastCall.ret = Action(FALSE, NO_DATA, UndefV)
    /\ ~IsAbsent(LastDoc) =>
         /\ LacksRequired(LastDoc) =>
              lastCall.ret = Action(FALSE, MISSING_PROPS, UndefV)
         /\ ~LacksRequired(LastDoc) =>
              /\ LastDoc.alphabet.k # "arr" =>
                   lastCall.ret = Action(FALSE, INVALID_DATA, UndefV)
              /\ (LastDoc.alphabet.k = "arr" /\ LastDoc.states.k # "arr") =>
                   lastCall.ret = Action(FALSE, INVALID_DATA, UndefV)
              /\ (LastDoc.alphabet.k = "arr" /\ LastDoc.states.k = "arr"
                    /\ LastDoc.states.items = <<>>) =>
                   lastCall.ret = Action(FALSE, NO_STATE, UndefV)

\* A document whose alphabet is no array and whose states are empty was
\* refused, for its alphabet, by a machine that holds states.
C19_Witness ==
  /\ lastCall.op = "fromJson"
  /\ lastCall.doc = "badAlphabetEmptyStates"
  /\ lastCall.ret = Action(FALSE, INVALID_DATA, UndefV)
  /\ states # <<>>

\* C20: for every input document, fromJson finishes by returning a result
\* whose action is one of NO_DATA, MISSING_PROPS, INVALID_DATA, NO_STATE,
\* VALID, with success = true exactly when action = VALID; it never reports a
\* failure by throwing.
C20_AlwaysReturnsAction ==
  lastCall.op = "fromJson" =>
    /\ lastCall.ret # Thrown
    /\ lastCall.ret.k = "action"
    /\ lastCall.ret.action \in {NO_DATA, MISSING_PROPS, INVALID_DATA, NO_STATE, VALID}
    /\ lastCall.ret.success = (lastCall.ret.action = VALID)

-----------------------------------------------------------------------------
(* What a load that returns VALID leaves in the machine.                    *)

IsValid(ret) == ret.k = "action" /\ ret.success /\ ret.action = VALID

\* The state descriptors of a document and their names, in document order.
Descs(doc) == doc.states.items
DescNames(doc) == [i \in DOMAIN Descs(doc) |-> Descs(doc)[i].name]

DistinctNames(doc) ==
  \A i, j \in DOMAIN Descs(doc) : i # j => DescNames(doc)[i] # DescNames(doc)[j]

\* The document's initialState, the sentinel when it has none.
DocInitialState(doc) ==
  IF "initialState" \in doc.has THEN doc.initialState ELSE NO_STATE

\* The step is a load, returning VALID, of doc into a machine without states.
LoadsIntoEmpty(doc) ==
  /\ lastCall'.op = "fromJson"
  /\ IsValid(lastCall'.ret)
  /\ doc = DocOf(lastCall'.doc)
  /\ states = <<>>
  /\ DOMAIN transitions = {}
  /\ Marks = {}

\* What C21 says the machine is after the load of doc.
LoadedAs(doc) ==
  /\ states' = DescNames(doc)
  /\ DOMAIN transitions' = Range(DescNames(doc))
  /\ Cardinality(DOMAIN transitions') = Len(Descs(doc))
  /\ Len(states') = Len(Descs(doc))
  /\ Marks' = {Descs(doc)[i].name : i \in {j \in DOMAIN Descs(doc) : Descs(doc)[j].isAcceptance}}
  /\ name' = doc.name
  /\ initialState' = DocInitialState(doc)
  /\ curState' = initialState'

\* C21 as claimed: after fromJson returns VALID for a document loaded into an
\* empty machine whose state descriptors have distinct names, the state set
\* is the descriptor names in document order, every descriptor name has a
\* rule, a name is marked iff its descriptor's isAcceptance is true, name is
\* the document's, initialState is the document's or the sentinel, and
\* currentState equals initialState.
C21_AsClaimed ==
  [][\A id \in LoadArgs :
       (LoadsIntoEmpty(DocOf(id)) /\ DistinctNames(DocOf(id))) => LoadedAs(DocOf(id))]_vars

\* C21, amended: the same for a document whose state descriptors have
\* distinct names none of which is empty.
C21_LoadRegistersDescriptors ==
  [][\A id \in LoadArgs :
       (/\ LoadsIntoEmpty(DocOf(id))
        /\ DistinctNames(DocOf(id))
        /\ "" \notin Range(DescNames(DocOf(id)))) => LoadedAs(DocOf(id))]_vars

\* The change machine's document was loaded right after a clear: two states,
\* the second one marked, no initialState.
C21_Witness ==
  /\ lastCall.op = "fromJson"
  /\ lastCall.doc = "changeMachine"
  /\ IsValid(lastCall.ret)
  /\ states = <<"S1", "S2">>
  /\ Marks = {"S2"}
  /\ curState = NO_STATE
  /\ DOMAIN transitions = {"S1", "S2"}

\* A value without the mark of the object it is.
Strip(v) == [f \in DOMAIN v \ {"ref"} |-> v[f]]

\* C22: every fromJson call that returns VALID resets alphabet, initialState,
\* initialData and name to the values of the document just loaded, whatever
\* was loaded before; after loading a document that has no initialData the
\* machine's initialData is absent.
C22_ValidLoadResets ==
  (lastCall.op = "fromJson" /\ IsValid(lastCall.ret)) =>
    /\ get_alphabet(M).k = "arr"
    /\ get_alphabet(M).items = LastDoc.alphabet.items
    /\ get_initialState(M) = DocInitialState(LastDoc)
    /\ name = LastDoc.name
    /\ "initialData" \in LastDoc.has => Strip(get_initialData(M)) = Strip(LastDoc.initialData)
    /\ "initialData" \notin LastDoc.has => get_initialData(M) = NullV

\* The caller changes the object ref (an array gets another item, a payment
\* another amount): the machine's fields that are this object change with it.
MutateObject(m, ref) ==
  [m EXCEPT !.alphabet =
              IF m.alphabet.k = "arr" /\ Ref(m.alphabet) = ref
              THEN [m.alphabet EXCEPT !.items = Append(m.alphabet.items, "x")]
              ELSE m.alphabet,
            !.initialData =
              IF m.initialData.k = "pmt" /\ Ref(m.initialData) = ref
              THEN [m.initialData EXCEPT !.amt = m.initialData.amt + 1]
              ELSE m.initialData]

\* What the three getters return.
Reads(m) == <<Strip(get_alphabet(m)), get_initialState(m),
              IF Truthy(m.initialData) THEN Strip(get_initialData(m)) ELSE NullV>>

\* C23: after a valid document is loaded, reading alphabet, initialState and
\* initialData returns values structurally equal to the document's; the values
\* returned by alphabet and initialData are independent copies, so mutating a
\* returned copy, or the source document after the load, does not change what
\* a later read returns.
C23_RoundTrip ==
  (lastCall.op = "fromJson" /\ IsValid(lastCall.ret)) =>
    /\ Reads(M) = <<Strip(LastDoc.alphabet), DocInitialState(LastDoc),
                    IF "initialData" \in LastDoc.has THEN Strip(LastDoc.initialData)
                    ELSE NullV>>
    /\ Reads(MutateObject(M, Ref(get_alphabet(M)))) = Reads(M)
    /\ Reads(MutateObject(M, Ref(get_initialData(M)))) = Reads(M)
    /\ Reads(MutateObject(M, Ref(LastDoc.alphabet))) = Reads(M)
    /\ Reads(MutateObject(M, Ref(LastDoc.initialData))) = Reads(M)

-----------------------------------------------------------------------------
(* Loads that fail in the loop over the descriptors or at initialData.      *)

\* The document passes the checks made before the loop.
PassesTopLevel(doc) ==
  /\ ~IsAbsent(doc)
  /\ ~LacksRequired(doc)
  /\ doc.alphabet.k = "arr"
  /\ doc.states.k = "arr"
  /\ doc.states.items # <<>>

LacksProperty(desc) ==
  \E prop \in {"name", "isAcceptance", "transition"} : prop \notin desc.has

\* The descriptors that lack a property, by index.
BadDescs(doc) == {i \in DOMAIN Descs(doc) : LacksProperty(Descs(doc)[i])}

\* The index of the first of them.
FirstBad(doc) == CHOOSE i \in BadDescs(doc) : \A j \in BadDescs(doc) : i <= j

\* The texts of the descriptors before the i-th are function bodies.
CompilesBefore(doc, i) ==
  \A j \in 1..(i - 1) : Compile(Descs(doc)[j].transition) # SyntaxError

\* The non-empty names of the descriptors before the i-th.
NamesBefore(doc, i) == {Descs(doc)[j].name : j \in 1..(i - 1)} \ {""}

\* C24: when a document passes the top-level checks but some state
\* descriptor lacks name, isAcceptance or transition, fromJson returns
\* success = false with action INVALID_DATA and node equal to the first such
\* descriptor in document order, and no descriptor after it is registered:
\* the states and the rules are those of before the call and of the
\* descriptors ahead of that one.  The loop has to reach the descriptor, so the
\* texts ahead of it are function bodies.
C24_FirstBadDescriptor ==
  [][\A id \in LoadArgs :
       LET doc == DocOf(id)
       IN (/\ lastCall'.op = "fromJson"
           /\ lastCall'.doc = id
           /\ PassesTopLevel(doc)
           /\ BadDescs(doc) # {}
           /\ CompilesBefore(doc, FirstBad(doc)))
          => /\ lastCall'.ret = Action(FALSE, INVALID_DATA, Descs(doc)[FirstBad(doc)])
             /\ Range(states') = Range(states) \cup NamesBefore(doc, FirstBad(doc))
             /\ DOMAIN transitions' =
                  DOMAIN transitions \cup NamesBefore(doc, FirstBad(doc))]_vars

\* A machine kept the state of the descriptor ahead of the first one that
\* lacks a property, which was reported, and not the state of the one after.
C24_Witness ==
  /\ lastCall.op = "fromJson"
  /\ lastCall.doc = "badFirstDescriptor"
  /\ lastCall.ret.node = DescWithout("isAcceptance", "S1", FALSE, TEXT_S1)
  /\ "S2" \in Range(states)
  /\ "S3" \notin Range(states)

\* The document reaches the initialData step: it passes the top-level checks
\* and every descriptor has its properties and a text that compiles.
ReachesInitialData(doc) ==
  /\ PassesTopLevel(doc)
  /\ BadDescs(doc) = {}
  /\ CompilesBefore(doc, Len(Descs(doc)) + 1)

\* C25: when a document supplies an initialData that is not a single
\* structured value (a sequence, a primitive or null), fromJson returns
\* success = false with action INVALID_DATA and node equal to the offending
\* value; the machine's initialData is unchanged, while the states and rules
\* registered from the document's descriptors, and the name, alphabet,
\* initialState and currentState set by the call, remain in place.
C25_BadInitialDataReported ==
  [][\A id \in LoadArgs :
       LET doc == DocOf(id)
       IN (/\ lastCall'.op = "fromJson"
           /\ lastCall'.doc = id
           /\ ReachesInitialData(doc)
           /\ "initialData" \in doc.has
           /\ doc.initialData.k \notin {"pmt", "doc", "desc"})
          => /\ lastCall'.ret = Action(FALSE, INVALID_DATA, doc.initialData)
             /\ initialData' = initialData
             /\ Range(states') = Range(states) \cup NamesBefore(doc, Len(Descs(doc)) + 1)
             /\ NamesBefore(doc, Len(Descs(doc)) + 1) \subseteq DOMAIN transitions'
             /\ name' = doc.name
             /\ alphabet'.k = "arr" /\ alphabet'.items = doc.alphabet.items
             /\ initialState' = DocInitialState(doc)
             /\ curState' = initialState']_vars

\* A document whose initialData is an array was refused by a machine that
\* holds the initialData of an earlier load and now the name, the states and
\* the initialState of this document.
C25_Witness ==
  /\ lastCall.op = "fromJson"
  /\ lastCall.doc = "badInitialData"
  /\ lastCall.ret = Action(FALSE, INVALID_DATA, Arr(<<>>))
  /\ initialData.k = "pmt"
  /\ name = "ChangeMachine"
  /\ curState = "S2"
  /\ lastCall.before # "S2"

\* The latest step is a fromJson that failed before the initialData step.
FailsBeforeInitialData ==
  /\ lastCall'.op = "fromJson"
  /\ lastCall'.ret.k = "action"
  /\ ~lastCall'.ret.success
  /\ ~ReachesInitialData(DocOf(lastCall'.doc))

\* C26: a fromJson call that fails before the initialData step (NO_DATA,
\* MISSING_PROPS, INVALID_DATA for an alphabet or states that is no array,
\* NO_STATE, or INVALID_DATA for a bad state descriptor) leaves the machine
\* unmutated: alphabet, name, initialState, currentState, the state set, the
\* rules and the acceptance marks are as they were before the call.
C26_FailedLoadLeavesMachine ==
  [][FailsBeforeInitialData =>
       /\ alphabet' = alphabet
       /\ name' = name
       /\ initialState' = initialState
       /\ curState' = curState
       /\ states' = states
       /\ transitions' = transitions
       /\ Marks' = Marks]_vars

-----------------------------------------------------------------------------
(* The factory.                                                             *)

\* fromJson of the latest call's document on a fresh machine.
FreshLoad == fromJson(Constructor, LastDoc)

\* C27: create(document, name?) returns a machine exactly when fromJson of
\* that document on a fresh machine returns success = true, and returns null
\* for an absent document and for every document that fails validation; the
\* returned machine has the states, rules, alphabet, initialState and
\* initialData that fromJson produced.
C27_CreateFollowsFromJson ==
  lastCall.op = "create" =>
    /\ lastCall.ret \in {MachineV, NullV}
    /\ lastCall.ret = MachineV <=> IsValid(FreshLoad.ret)
    /\ IsAbsent(LastDoc) => lastCall.ret = NullV
    /\ ~IsValid(FreshLoad.ret) => lastCall.ret = NullV
    /\ lastCall.ret = MachineV =>
         /\ states = FreshLoad.m.states
         /\ transitions = FreshLoad.m.transitions
         /\ alphabet = FreshLoad.m.alphabet
         /\ initialState = FreshLoad.m.initialState
         /\ initialData = FreshLoad.m.initialData

-----------------------------------------------------------------------------
(* The machines of the test suite.                                          *)

\* The sequences over S of lengths 1 to n.
SeqsUpTo(S, n) == UNION {[1..k -> S] : k \in 1..n}

\* Binary numbers with an even number of zeros (machine test #1): S1, the
\* acceptance state, with f1 and S2 with f2, built in any order.
MaxBits == 6
BitSeqs == SeqsUpTo({Num(0), Num(1)}, MaxBits)

EvenZerosBuilt ==
  /\ Range(states) = {"S1", "S2"}
  /\ DOMAIN transitions = {"S1", "S2"}
  /\ transitions["S1"] = "f1"
  /\ transitions["S2"] = "f2"
  /\ Marks = {"S1"}

BinaryAddState == \E n \in {"S1", "S2"} : AddState(n, n = "S1")

BinaryAddTransition ==
  \E n \in {"S1", "S2"} : AddTransition(n, IF n = "S1" THEN "f1" ELSE "f2")

BinaryDrive == EvenZerosBuilt /\ \E bits \in BitSeqs : Drive(bits, "S1")

NextBinary == BinaryAddState \/ BinaryAddTransition \/ BinaryDrive \/ Clear

SpecBinary == Init /\ [][NextBinary]_vars

\* How many zeros the latest run was given.
Zeros == Cardinality({i \in DOMAIN lastCall.input.items : lastCall.input.items[i] = Num(0)})

\* C28: for the machine S1 (acceptance), S2 with rule 1->S1, 0->S2, other->S1
\* at S1 and rule 1->S2, 0->S1, other->S2 at S2: driving it with next over a
\* non-empty sequence over {0,1}, the first call with override S1, ends with
\* isAcceptance true if and only if the sequence has an even number of zeros,
\* and currentState is S1 in that case and S2 otherwise.
C28_EvenZerosAccepted ==
  lastCall.op = "drive" =>
    /\ isAcceptance(M) = (Zeros % 2 = 0)
    /\ currentState(M) = (IF Zeros % 2 = 0 THEN "S1" ELSE "S2")
    /\ lastCall.ret.last.k = "out"
    /\ lastCall.ret.last.to = currentState(M)

\* The run 0, 1, 0 from S1 ended in S1, accepted, and a run that started in
\* S2 under the override.
C28_Witness ==
  /\ lastCall.op = "drive"
  /\ lastCall.input = Arr(<<Num(0), Num(1), Num(0)>>)
  /\ lastCall.before = "S2"
  /\ curState = "S1"
  /\ isAcceptance(M)

\* The string machine (machine test #2 and the document machine1).
MaxLetters == 4
LetterSeqs == SeqsUpTo({Str("a"), Str("b"), Str("c"), Str("d")}, MaxLetters)

\* machine test #2: the machine built by addState and addTransition.
BuiltStringMachine ==
  LET s1 == addState(Constructor, "S1", FALSE).m
      s2 == addState(s1, "S2", FALSE).m
      s3 == addState(s2, "S3", FALSE).m
      s4 == addState(s3, "S4", TRUE).m
      t1 == addTransition(s4, "S1", "f12").m
      t2 == addTransition(t1, "S2", "f22").m
      t3 == addTransition(t2, "S3", "f32").m
  IN addTransition(t3, "S4", "f42").m

LoadString == FromJson("machine1")

DriveLoaded ==
  /\ lastCall.op = "fromJson"
  /\ IsValid(lastCall.ret)
  /\ \E letters \in LetterSeqs : Drive(letters, UNDEF)

NextString == LoadString \/ DriveLoaded \/ Clear

SpecString == Init /\ [][NextString]_vars

\* C29: the string machine loaded from its document (S1..S4, S4 acceptance,
\* initialState S1) and the machine built with addState/addTransition and
\* started with override S1 are equivalent: for every input sequence over
\* {a,b,c,d}, after each step both have the same currentState and the same
\* isAcceptance.
C29_LoadedEqualsBuilt ==
  lastCall.op = "drive" =>
    /\ Len(lastCall.ret.seen) = Len(lastCall.input.items)
    /\ lastCall.ret.seen = RunFrom(BuiltStringMachine, lastCall.input.items, "S1").seen
    /\ Seen(M) = Seen(RunFrom(BuiltStringMachine, lastCall.input.items, "S1").m)

\* The loaded machine went S1, S2, S4, S3, S4 on a, c, d, b: every rule was
\* used, and the run ends accepted.
C29_Witness ==
  /\ lastCall.op = "drive"
  /\ lastCall.input = Arr(<<Str("a"), Str("c"), Str("d"), Str("b")>>)
  /\ lastCall.ret.seen[3] = [state |-> "S3", accepting |-> FALSE]
  /\ curState = "S4"
  /\ isAcceptance(M)

\* The change machine (change machine tests #1 and #3): the states p, n, q, d
\* and c, the acceptance state, then payola for p, n, d and q, added in the
\* order of the tests.  A payment is made coin by coin, every next call given
\* the payment object and the coin as override, until the machine is in c.
MaxAmt == 30
Amt15 == 15
Amt68 == 68
StartAmts == (1..MaxAmt) \cup {Amt15, Amt68}

ChangeStateOrder == <<"p", "n", "q", "d", "c">>
ChangeRuleOrder == <<"p", "n", "d", "q">>

ChangeBuilt ==
  /\ states = ChangeStateOrder
  /\ DOMAIN transitions = CoinNames
  /\ \A coin \in CoinNames : transitions[coin] = "payola"
  /\ Marks = {"c"}

ChangeAddState ==
  /\ Len(states) < Len(ChangeStateOrder)
  /\ AddState(ChangeStateOrder[Len(states) + 1], ChangeStateOrder[Len(states) + 1] = "c")

ChangeAddTransition ==
  /\ Len(states) = Len(ChangeStateOrder)
  /\ numTransitions(M) < Len(ChangeRuleOrder)
  /\ AddTransition(ChangeRuleOrder[numTransitions(M) + 1], "payola")

PayFirst ==
  /\ ChangeBuilt
  /\ lastCall.op # "next" \/ curState = "c"
  /\ \E amt \in StartAmts, coin \in CoinNames : NextCall(Pmt(amt), coin)

PayMore ==
  /\ ChangeBuilt
  /\ lastCall.op = "next"
  /\ curState # "c"
  /\ \E coin \in CoinNames : NextCall(lastCall.ret.data, coin)

NextChange == ChangeAddState \/ ChangeAddTransition \/ PayFirst \/ PayMore \/ Clear

SpecChange == Init /\ [][NextChange]_vars

\* What the coins are worth, in cents.
Cents(coin) ==
  CASE coin = "p" -> 1 [] coin = "n" -> 5 [] coin = "d" -> 10 [] coin = "q" -> 25

\* A payment made coin by coin: the machine and the payment after the last.
RECURSIVE PayAll(_, _, _)
PayAll(m, pmt, coins) ==
  IF coins = <<>> THEN [m |-> m, pmt |-> pmt]
  ELSE LET r == next(m, pmt, Head(coins))
       IN PayAll(r.m, r.ret.data, Tail(coins))

\* C30: for the change machine, amounts in whole cents, every starting amount
\* below one dollar and every sequence of coins fed as the override of
\* successive next calls: a step stays in the coin's state with amt reduced by
\* the coin's value while the remainder is positive, and the first step whose
\* remainder is zero or negative moves to c with amt = 0 and change = the
\* overpayment; 68 cents with q,q,d,n,p,p,p ends at c with amt 0, change 0 and
\* isAcceptance true, and 15 cents with p,n,n,d ends at c with change 6.
C30_ChangeMachine ==
  /\ (lastCall.op = "next" /\ ChangeBuilt) =>
       LET remainder == lastCall.input.amt - Cents(lastCall.name)
       IN /\ lastCall.ret.k = "out"
          /\ remainder > 0 =>
               /\ currentState(M) = lastCall.name
               /\ lastCall.ret.to = lastCall.name
               /\ lastCall.ret.data.amt = remainder
               /\ ~isAcceptance(M)
          /\ remainder <= 0 =>
               /\ currentState(M) = "c"
               /\ lastCall.ret.to = "c"
               /\ lastCall.ret.data.amt = 0
               /\ lastCall.ret.data.change = 0 - remainder
               /\ isAcceptance(M)
  /\ ChangeBuilt =>
       /\ LET r == PayAll(M, Pmt(Amt68), <<"q", "q", "d", "n", "p", "p", "p">>)
          IN /\ r.m.curState = "c"
             /\ r.pmt.amt = 0
             /\ r.pmt.change = 0
             /\ isAcceptance(r.m)
       /\ LET r == PayAll(M, Pmt(Amt15), <<"p", "n", "n", "d">>)
          IN /\ r.m.curState = "c"
             /\ r.pmt.change = 6
             /\ isAcceptance(r.m)

\* 68 cents were paid with two quarters, a dime, a nickel and three pennies,
\* the last coin a penny: the machine is in c and owes no change.
C30_Witness ==
  /\ ChangeBuilt
  /\ lastCall.op = "next"
  /\ lastCall.name = "p"
  /\ lastCall.ret.data = [Pmt(0) EXCEPT !.q = 2, !.d = 1, !.n = 1, !.p = 3]
  /\ curState = "c"
  /\ isAcceptance(M)

\* The change machine loaded from its document (data-defined machine test
\* #2): the payment is the copy read from initialData, paid coin by coin
\* under the coin as override; next is also called without an override or
\* with the override c, with the payment or with a string, in whatever state
\* the machine is.
LoadChange == FromJson("machine2")

ChangeLoaded == DOMAIN transitions = CoinNames \cup {"c"}

\* The payment object the test holds: the one the latest step returned, else
\* the copy read from initialData.
Payment ==
  IF lastCall.op = "next" /\ lastCall.ret.k = "out" /\ lastCall.ret.data.k = "pmt"
  THEN lastCall.ret.data
  ELSE get_initialData(M)

SubscribeLoaded == ChangeLoaded /\ observers = <<>> /\ AddSubscriber(EarlyListener)

\* The coins paid with.
LoadedCoins == {"n", "d", "q"}

PayLoaded ==
  /\ ChangeLoaded
  /\ curState # "c"
  /\ \E coin \in LoadedCoins : NextCall(Payment, coin)

StepLoaded ==
  /\ ChangeLoaded
  /\ \E input \in {Payment, Str("q")}, override \in {UNDEF, "c"} :
       NextCall(input, override)

\* FiniteStateMachine.create(machine2, 'mine')
CreateChange == Create("machine2", "mine")

NextChangeLoaded ==
  LoadChange \/ CreateChange \/ SubscribeLoaded \/ PayLoaded \/ StepLoaded \/ Clear

SpecChangeLoaded == Init /\ [][NextChangeLoaded]_vars

\* C31: in the change machine loaded from its document the complete state c
\* has no outgoing rule: once currentState is c, a next call without override
\* returns null, publishes no event and leaves currentState at c, as in the
\* machine built by addState/addTransition, where c has no rule.
C31_CompleteHasNoRule ==
  (/\ ChangeLoaded
   /\ lastCall.op = "next"
   /\ ~OverrideGiven
   /\ lastCall.before = "c") =>
    /\ lastCall.ret = NullV
    /\ lastCall.ret = next([M EXCEPT !.transitions =
                              [x \in CoinNames |-> "payola"]], lastCall.input, UNDEF).ret
    /\ lastCall.delivered = <<>>
    /\ currentState(M) = "c"

\* The coins counted on a payment.
Coins(pmt) == [coin \in CoinNames |-> pmt[coin]]

\* C35: loading a document never executes a transition body: during fromJson
\* (and create) no compiled rule is invoked and no event is published to any
\* listener; a rule runs only inside a next call made while its state is
\* current.  A body of the change machine that ran would count a coin on the
\* payment it was given, or fail for want of one, and would move the machine.
C35_LoadRunsNoBody ==
  /\ lastCall.op \in {"fromJson", "create"} =>
       /\ lastCall.delivered = <<>>
       /\ lastCall.ret # Thrown
       /\ currentState(M) = get_initialState(M)
       /\ Coins(initialData) = Coins(Pmt(0))
       /\ Coins(get_initialData(M)) = Coins(Pmt(0))
       /\ initialData.amt = DocOf("machine2").initialData.amt
  /\ (Stepped /\ lastCall.input.k = "pmt") =>
       /\ LookupState \in CoinNames
       /\ Coins(lastCall.ret.data) =
            [Coins(lastCall.input) EXCEPT ![LookupState] = @ + 1]
  /\ (lastCall.op = "next" /\ ~FoundRule) => lastCall.ret = NullV

\* The document was loaded again into the machine, in the middle of a
\* payment and with a listener attached.
C35_Witness ==
  /\ lastCall.op = "fromJson"
  /\ lastCall.before \in CoinNames
  /\ observers # <<>>
  /\ IsValid(lastCall.ret)
  /\ curState = NO_STATE

\* C37: if the rule registered for the current state returns no result object
\* (as a rule compiled from an empty or return-less transition text does),
\* next fails with an error before anything is published: no listener
\* receives an event and currentState keeps the value it had after the
\* override was applied.
C37_NoResultThrows ==
  (FoundRule /\ RuleResult.k = "undefined") =>
    /\ lastCall.ret = Thrown
    /\ lastCall.delivered = <<>>
    /\ currentState(M) = LookupState

\* With a listener attached, next was called under the override c from a
\* coin state: c's rule, compiled from the empty text, returned nothing.
C37_Witness ==
  /\ FoundRule
  /\ RuleResult.k = "undefined"
  /\ transitions[LookupState] = "empty"
  /\ lastCall.before \in CoinNames
  /\ OverrideGiven
  /\ observers # <<>>
  /\ curState = "c"


-----------------------------------------------------------------------------
(* Listeners over a sequence of calls.  The record of the latest call also  *)
(* holds, as log, the records of the calls before it, so that what each     *)
(* listener was handed can be read off call by call.  The machine has the   *)
(* state S1 with f1, which leads to S1 or to S2, where no rule is           *)
(* registered and next returns null, and up to MaxSubs subscriptions of L1  *)
(* and L2, added at any time.                                               *)

MaxCalls == 5

\* The record of a call without the log it carries.
Entry(call) == [f \in DOMAIN call \ {"log"} |-> call[f]]

\* The calls so far, the construction first and the latest call last.
History == Append(lastCall.log, Entry(lastCall))

Logged(call) ==
  [f \in DOMAIN call \cup {"log"} |-> IF f = "log" THEN History ELSE call[f]]

InitNotify ==
  /\ name = Constructor.name
  /\ curState = Constructor.curState
  /\ states = Constructor.states
  /\ transitions = Constructor.transitions
  /\ observers = Constructor.observers
  /\ subscriptions = Constructor.subscriptions
  /\ acceptanceStates = Constructor.acceptanceStates
  /\ initialState = Constructor.initialState
  /\ initialData = Constructor.initialData
  /\ alphabet = Constructor.alphabet
  /\ lastCall = [f \in DOMAIN NoCall \cup {"log"} |-> IF f = "log" THEN <<>> ELSE NoCall[f]]

CallsLeft == Len(History) <= MaxCalls

NotifyAddState ==
  /\ CallsLeft
  /\ states = <<>>
  /\ Apply(addState(M, "S1", FALSE), Logged(Call("addState", "S1", FALSE, "", UndefV, "")))

NotifyAddTransition ==
  /\ CallsLeft
  /\ DOMAIN transitions = {}
  /\ Apply(addTransition(M, "S1", "f1"),
           Logged(Call("addTransition", "S1", FALSE, "f1", UndefV, "")))

NotifySubscribe ==
  /\ CallsLeft
  /\ Len(observers) < MaxSubs
  /\ \E l \in Listeners :
       Apply(addSubscriber(M, l), Logged(Call("addSubscriber", l, FALSE, "", UndefV, "")))

NotifyStep ==
  /\ CallsLeft
  /\ \E input \in {Num(0), Num(1)}, override \in {UNDEF, "S1"} :
       Apply(next(M, input, override), Logged(Call("next", override, FALSE, "", input, "")))

NotifyClear ==
  /\ CallsLeft
  /\ Apply(clear(M), Logged(Call("clear", UNDEF, FALSE, "", UndefV, "")))

NextNotify ==
  \/ NotifyAddState
  \/ NotifyAddTransition
  \/ NotifySubscribe
  \/ NotifyStep
  \/ NotifyClear

SpecNotify == InitNotify /\ [][NextNotify]_vars

\* The k-th call is a next that returned a result.
Successful(k) == History[k].op = "next" /\ History[k].ret.k = "out"

\* No clear was called after the i-th call and before the k-th.
NoClearBetween(i, k) == \A j \in (i + 1)..(k - 1) : History[j].op # "clear"

\* The listeners added before the k-th call and not cleared since, in the
\* order of their addSubscriber calls.
SubscribedAt(k) ==
  LET subs == SelectSeq(SubSeq(History, 1, k - 1),
                        LAMBDA e : e.op = "addSubscriber" /\ e.name # NoObserver)
      idx == {i \in 1..(k - 1) : /\ History[i].op = "addSubscriber"
                                 /\ History[i].name # NoObserver
                                 /\ NoClearBetween(i, k)}
  IN SubSeq(subs, Len(subs) - Cardinality(idx) + 1, Len(subs))

\* The event of the k-th call, a successful next: from the state the call
\* looked up to the target it returned (f1 returns no payload).
EventOf(k) ==
  LET c == History[k]
  IN [from |-> IF c.name # UNDEF /\ c.name # "" THEN c.name ELSE c.before,
      to |-> c.ret.to, data |-> NullV]

ListenersOf(k) ==
  [j \in DOMAIN History[k].delivered |-> History[k].delivered[j].listener]

\* C32: when several listeners are registered, each successful next delivers
\* its event to every one of them, synchronously and in the order in which
\* they were added with addSubscriber, before next returns; what one listener
\* is handed does not depend on the others.
C32_DeliveryInSubscriptionOrder ==
  \A k \in DOMAIN History :
    Successful(k) =>
      /\ [j \in DOMAIN SubscribedAt(k) |-> SubscribedAt(k)[j].name] = ListenersOf(k)
      /\ \A j \in DOMAIN History[k].delivered :
           /\ History[k].delivered[j].event = EventOf(k)
           /\ History[k].delivered[j].seen = EventOf(k).from

\* L2 was added before L1, and a step that changed the state was delivered
\* to L2 first and to L1 second.
C32_Witness ==
  /\ Successful(Len(History))
  /\ ListenersOf(Len(History)) = <<LateListener, EarlyListener>>
  /\ EventOf(Len(History)).from # EventOf(Len(History)).to

\* The k-th call handed listener l something.
Receives(l, k) == \E j \in DOMAIN History[k].delivered : History[k].delivered[j].listener = l

\* C33: events are neither buffered nor replayed: a listener added with
\* addSubscriber after some next calls have completed never receives the
\* events of those calls; the first event it receives is that of the first
\* successful next made after it was added.
C33_NoReplay ==
  \A l \in Listeners :
    /\ \A k \in DOMAIN History :
         Receives(l, k) =>
           /\ Successful(k)
           /\ \E i \in 1..(k - 1) : /\ History[i].op = "addSubscriber"
                                    /\ History[i].name = l
                                    /\ NoClearBetween(i, k)
           /\ \A j \in DOMAIN History[k].delivered :
                History[k].delivered[j].listener = l =>
                  History[k].delivered[j].event = EventOf(k)
    /\ \A i \in DOMAIN History :
         (History[i].op = "addSubscriber" /\ History[i].name = l) =>
           \A k \in (i + 1)..Len(History) :
             (Successful(k) /\ NoClearBetween(i, k)) => Receives(l, k)

\* L2 was added after a step from S1 to S2 had completed and was then handed
\* the step from S1 to S1, its first event and the only one it has.
C33_Witness ==
  /\ \E i, k \in DOMAIN History :
       /\ i < k
       /\ Successful(i)
       /\ EventOf(i).to = "S2"
       /\ History[k].op = "addSubscriber"
       /\ History[k].name = LateListener
       /\ \A j \in 1..(k - 1) : History[j].op # "addSubscriber"
  /\ Successful(Len(History))
  /\ EventOf(Len(History)).to = "S1"
  /\ ListenersOf(Len(History)) = <<LateListener>>
  /\ Cardinality({k \in DOMAIN History : Receives(LateListener, k)}) = 1

-----------------------------------------------------------------------------
(* What changes currentState.                                               *)

\* C34 as claimed: currentState is changed only by the stepping operation (by
\* its rule's target or by the override passed into it): addState,
\* addTransition, addSubscriber, fromJson, clear and every getter leave
\* currentState unchanged.
C34_AsClaimed ==
  [][lastCall'.op # "next" => curState' = curState]_vars

\* C34: currentState is changed by the stepping operation (to the override
\* passed into it, then to its rule's target), by clear, which sets it to the
\* NO_STATE sentinel, and by a fromJson whose document passes the checks of
\* name, alphabet and states, which sets it to the document's initialState
\* (the sentinel when the document has none); addState, addTransition,
\* addSubscriber and every other fromJson leave it unchanged.
C34_CurrentStateFrame ==
  [][/\ lastCall'.op \in {"addState", "addTransition", "addSubscriber"} =>
          curState' = curState
     /\ lastCall'.op = "clear" => curState' = NO_STATE
     /\ lastCall'.op = "fromJson" =>
          curState' = IF PassesTopLevel(DocOf(lastCall'.doc))
                      THEN DocInitialState(DocOf(lastCall'.doc))
                      ELSE curState
     /\ lastCall'.op = "next" =>
          \/ curState' = curState
          \/ lastCall'.name \notin {UNDEF, ""} /\ curState' = lastCall'.name
          \/ lastCall'.ret.k = "out" /\ curState' = lastCall'.ret.to]_vars

\* A load that failed at its second descriptor took the machine from S1 to
\* the document's initialState S2.
C34_Witness ==
  /\ lastCall.op = "fromJson"
  /\ lastCall.doc = "badDescriptor"
  /\ lastCall.before = "S1"
  /\ curState = "S2"
  /\ ~lastCall.ret.success

-----------------------------------------------------------------------------
(* Loading into a machine that has states, and descriptors that share a     *)
(* name.                                                                    *)

\* Documents loaded one into the other, with no clear in between or after
\* one: the string and change machines, which share the names S1 and S2, a
\* document whose descriptors share names, documents with an empty name or
\* with a bad second descriptor, and the string machine of the tests.
MergeArgs ==
  {"stringTest", "changeMachine", "duplicateNames", "emptyName", "badDescriptor",
   "machine1"}

LoadMerge == \E id \in MergeArgs : FromJson(id)

\* A state added by hand, which has no rule until a document brings one.
MergeAddState == \E acc \in BOOLEAN : AddState("S3", acc)

NextMerge == LoadMerge \/ MergeAddState \/ Clear

SpecMerge == Init /\ [][NextMerge]_vars

\* Nothing in the document makes the load fail.
WellFormed(doc) ==
  /\ ReachesInitialData(doc)
  /\ "initialData" \in doc.has => doc.initialData.k = "pmt"

\* The rule compiled from the first descriptor of doc that has the name n.
FirstRule(doc, n) ==
  LET first == CHOOSE i \in DOMAIN Descs(doc) :
                 /\ Descs(doc)[i].name = n
                 /\ \A j \in 1..(i - 1) : Descs(doc)[j].name # n
  IN Compile(Descs(doc)[first].transition)

\* The names whose descriptor, or one of whose descriptors, is an acceptance
\* state.
AcceptedNames(doc) ==
  {Descs(doc)[i].name : i \in {j \in DOMAIN Descs(doc) : Descs(doc)[j].isAcceptance}}

\* What C36 says of the load of doc, for the names given.
MergedInto(doc, names, accepted) ==
  /\ IsValid(lastCall'.ret)
  /\ Range(states') = Range(states) \cup names
  /\ IsPrefix(states, states')
  /\ \A n \in DOMAIN transitions :
       n \in DOMAIN transitions' /\ transitions'[n] = transitions[n]
  /\ \A n \in names \ DOMAIN transitions :
       n \in DOMAIN transitions' /\ transitions'[n] = FirstRule(doc, n)
  /\ DOMAIN transitions' = DOMAIN transitions \cup names
  /\ Marks' = Marks \cup accepted

\* C36 as claimed: fromJson never removes a state and never replaces an
\* existing rule: when a document is loaded into a machine that already has
\* states, or when two descriptors share a name, the state set after the call
\* is the union of old and new names, the rule registered first for a name
\* stays in force and the later descriptor's transition is dropped, the
\* acceptance mark is set if any descriptor of that name has isAcceptance
\* true, and the call still returns VALID.
C36_AsClaimed ==
  [][(lastCall'.op = "fromJson" /\ WellFormed(DocOf(lastCall'.doc))) =>
       MergedInto(DocOf(lastCall'.doc),
                  Range(DescNames(DocOf(lastCall'.doc))),
                  AcceptedNames(DocOf(lastCall'.doc)))]_vars

\* C36: as claimed, for the names other than the empty string: a descriptor
\* with the empty name adds no state, no rule and no mark.
C36_LoadMerges ==
  [][(lastCall'.op = "fromJson" /\ WellFormed(DocOf(lastCall'.doc))) =>
       MergedInto(DocOf(lastCall'.doc),
                  Range(DescNames(DocOf(lastCall'.doc))) \ {""},
                  AcceptedNames(DocOf(lastCall'.doc)) \ {""})]_vars

\* The document with two S1 and two S3 descriptors was loaded into the
\* change machine: S1 kept the rule it had, S3 got the rule of its first
\* descriptor, and S1 was marked by its second.
C36_Witness ==
  /\ lastCall.op = "fromJson"
  /\ lastCall.doc = "duplicateNames"
  /\ IsValid(lastCall.ret)
  /\ states = <<"S1", "S2", "S3">>
  /\ transitions["S1"] = "payText"
  /\ transitions["S3"] = "fn_S1"
  /\ Marks = {"S1", "S2"}

-----------------------------------------------------------------------------
(* Listeners that call the machine from their handlers.  The machine of     *)
(* machine test #1 (S1 with f1, S2 with f2) with a listener that only       *)
(* listens, one that calls next(0) and one that calls clear(), each         *)
(* subscribed at most once and in any order.                                *)

ReentrantListeners == {EarlyListener, Stepper, Clearer}

SubscribeReentrant ==
  \E l \in ReentrantListeners :
    /\ l \notin Range(observers)
    /\ Apply(addSubscriber(M, l), Call("addSubscriber", l, FALSE, "", UndefV, ""))

StepNested ==
  \E input \in {Num(0), Num(1)}, override \in {UNDEF, "S1"} :
    Apply(nextNested(M, input, override, 0), Call("next", override, FALSE, "", input, ""))

NextReentrant ==
  BinaryAddState \/ BinaryAddTransition \/ SubscribeReentrant \/ StepNested \/ Clear

SpecReentrant == Init /\ [][NextReentrant]_vars

\* The deliveries of the latest call made by the caller's next (depth 0) and
\* by the next a handler called (depth 1), by their places in the sequence.
OuterAt == {i \in DOMAIN lastCall.delivered : lastCall.delivered[i].depth = 0}
InnerAt == {i \in DOMAIN lastCall.delivered : lastCall.delivered[i].depth = 1}

\* The place of the delivery that made Stepper call next.
StepperAt ==
  CHOOSE i \in OuterAt : lastCall.delivered[i].listener = Stepper

\* C38: when a listener calls next re-entrantly while an event is being
\* delivered, the inner call starts from the outer event's `from` state
\* (currentState has not yet been advanced), its own event is delivered in
\* full before the outer delivery continues, and after the outer next returns
\* currentState equals the outer rule's target, so the inner step's state
\* change is overwritten.
C38_InnerStepOverwritten ==
  (lastCall.op = "next" /\ InnerAt # {}) =>
    LET outer == lastCall.delivered[1].event
    IN /\ \A i \in OuterAt : lastCall.delivered[i].event = outer
       /\ \A i \in InnerAt :
            /\ lastCall.delivered[i].event.from = outer.from
            /\ lastCall.delivered[i].event.to =
                 RuleApply(IF outer.from = "S1" THEN "f1" ELSE "f2",
                           InnerInput, outer.from).to
       /\ InnerAt = (StepperAt + 1)..(StepperAt + Cardinality(InnerAt))
       /\ (\A i \in DOMAIN lastCall.delivered :
             lastCall.delivered[i].listener # Clearer) =>
            /\ [i \in 1..Cardinality(InnerAt) |->
                  lastCall.delivered[StepperAt + i].listener] = observers
            /\ [i \in 1..Cardinality(OuterAt) |->
                  lastCall.delivered[IF i <= StepperAt THEN i
                                     ELSE i + Cardinality(InnerAt)].listener] = observers
       /\ \A i \in OuterAt :
            i > StepperAt => lastCall.delivered[i].seen = lastCall.delivered[StepperAt + 1].event.to
       /\ lastCall.ret.to = outer.to
       /\ currentState(M) = outer.to

\* Stepper, subscribed before L1, called next(0) while the step from S1 to S1
\* was delivered: L1 was handed the inner step to S2 first and saw S2 when it
\* was handed the outer one, and the machine ended in S1.
C38_Witness ==
  /\ lastCall.op = "next"
  /\ observers = <<Stepper, EarlyListener>>
  /\ Len(lastCall.delivered) = 4
  /\ lastCall.delivered[1].event = [from |-> "S1", to |-> "S1", data |-> NullV]
  /\ lastCall.delivered[3].listener = EarlyListener
  /\ lastCall.delivered[3].event = [from |-> "S1", to |-> "S2", data |-> NullV]
  /\ lastCall.delivered[4].seen = "S2"
  /\ curState = "S1"

\* C39: when a listener calls clear while an event is being delivered, the
\* outer next still assigns its rule's target to currentState after delivery,
\* so after that next returns the machine has an empty state set and no rules
\* but a currentState equal to the target rather than the NO_STATE sentinel.
C39_ClearedButNotReset ==
  (/\ lastCall.op = "next"
   /\ \E i \in OuterAt : lastCall.delivered[i].listener = Clearer) =>
    /\ numStates(M) = 0
    /\ numTransitions(M) = 0
    /\ lastCall.ret.k = "out"
    /\ currentState(M) = lastCall.delivered[1].event.to
    /\ currentState(M) = lastCall.ret.to
    /\ currentState(M) # NO_STATE

\* Clearer cleared the machine while the step from S1 to S2 was delivered to
\* it, the only delivery of the call: the emptied machine is in S2.
C39_Witness ==
  /\ lastCall.op = "next"
  /\ lastCall.before = "S1"
  /\ Len(lastCall.delivered) = 1
  /\ lastCall.delivered[1].listener = Clearer
  /\ states = <<>>
  /\ DOMAIN transitions = {}
  /\ observers = <<>>
  /\ acceptanceStates = NullV
  /\ curState = "S2"

=============================================================================
